---- MODULE Spec2Model ----
(***************************************************************************)
(* A model of the security-scoped file-access gateway, the configuration   *)
(* store and the tool surface of mcp_excel.                                *)
(*                                                                         *)
(* Strings are sequences of tokens.  A token is a separator ("/", ",",     *)
(* " "), a dot segment (".", ".."), the extension ".xlsx", or a word.      *)
(* Path functions split, join and normalise these sequences the way        *)
(* posixpath and pathlib do.                                               *)
(***************************************************************************)
EXTENDS Integers, Sequences, FiniteSets, TLC

(***************************************************************************)
(* String helpers (str.split, str.strip, str.join, str.startswith).        *)
(***************************************************************************)
RECURSIVE Split(_, _)
Split(s, sep) ==
    IF \A i \in 1..Len(s) : s[i] # sep
    THEN <<s>>
    ELSE LET i == CHOOSE k \in 1..Len(s) :
                     s[k] = sep /\ \A j \in 1..(k - 1) : s[j] # sep
         IN  <<SubSeq(s, 1, i - 1)>> \o Split(SubSeq(s, i + 1, Len(s)), sep)

RECURSIVE JoinWith(_, _)
JoinWith(parts, sep) ==
    IF parts = <<>> THEN <<>>
    ELSE IF Len(parts) = 1 THEN parts[1]
    ELSE parts[1] \o <<sep>> \o JoinWith(Tail(parts), sep)

RECURSIVE LStrip(_)
LStrip(s) == IF s # <<>> /\ Head(s) = " " THEN LStrip(Tail(s)) ELSE s

RECURSIVE RStrip(_)
RStrip(s) ==
    IF s # <<>> /\ s[Len(s)] = " " THEN RStrip(SubSeq(s, 1, Len(s) - 1)) ELSE s

Strip(s) == RStrip(LStrip(s))

StartsWith(s, p) == Len(s) >= Len(p) /\ SubSeq(s, 1, Len(p)) = p

EndsWith(s, p) ==
    Len(s) >= Len(p) /\ SubSeq(s, Len(s) - Len(p) + 1, Len(s)) = p

Contains(s, tok) == \E i \in 1..Len(s) : s[i] = tok

Front(s) == SubSeq(s, 1, Len(s) - 1)

Last(s) == s[Len(s)]

RECURSIVE CommonPrefix(_, _)
CommonPrefix(a, b) ==
    IF a = <<>> \/ b = <<>> \/ Head(a) # Head(b) THEN <<>>
    ELSE <<Head(a)>> \o CommonPrefix(Tail(a), Tail(b))

IsPrefix(a, b) == Len(a) <= Len(b) /\ SubSeq(b, 1, Len(a)) = a

(***************************************************************************)
(* posixpath: isabs, join, normpath, abspath, commonpath, dirname.         *)
(***************************************************************************)
SEP == "/"
DOTDOT == <<"..">>
CURDIR == <<".">>

isabs(s) == s # <<>> /\ s[1] = SEP

\* The components of a path string, '' and '.' dropped, '..' kept.
Comps(s) == SelectSeq(Split(s, SEP), LAMBDA c : c # <<>> /\ c # CURDIR)

join(a, b) ==
    IF isabs(b) THEN b
    ELSE IF a = <<>> \/ Last(a) = SEP THEN a \o b
    ELSE a \o <<SEP>> \o b

RECURSIVE NormComps(_, _, _)
NormComps(comps, rooted, acc) ==
    IF comps = <<>> THEN acc
    ELSE LET c == Head(comps) IN
         IF c # DOTDOT \/ (~rooted /\ acc = <<>>) \/ (acc # <<>> /\ Last(acc) = DOTDOT)
         THEN NormComps(Tail(comps), rooted, Append(acc, c))
         ELSE IF acc # <<>>
         THEN NormComps(Tail(comps), rooted, Front(acc))
         ELSE NormComps(Tail(comps), rooted, acc)

normpath(path) ==
    IF path = <<>> THEN CURDIR
    ELSE LET rooted == isabs(path)
             body   == JoinWith(NormComps(Comps(path), rooted, <<>>), SEP)
             out    == IF rooted THEN <<SEP>> \o body ELSE body
         IN  IF out = <<>> THEN CURDIR ELSE out

\* The process's working directory.
Cwd == <<"/", "work">>

abspath(path) == normpath(IF isabs(path) THEN path ELSE join(Cwd, path))

RECURSIVE RStripSep(_)
RStripSep(s) ==
    IF s # <<>> /\ s[Len(s)] = SEP THEN RStripSep(SubSeq(s, 1, Len(s) - 1)) ELSE s

dirname(path) ==
    LET idx  == {i \in 1..Len(path) : path[i] = SEP}
        i    == IF idx = {} THEN 0 ELSE CHOOSE k \in idx : \A j \in idx : j <= k
        head == SubSeq(path, 1, i)
    IN  IF head # <<>> /\ \E k \in 1..Len(head) : head[k] # SEP
        THEN RStripSep(head) ELSE head

\* os.path.commonpath of two absolute paths: component-wise, '..' not collapsed.
commonpath2(a, b) == <<SEP>> \o JoinWith(CommonPrefix(Comps(a), Comps(b)), SEP)

(***************************************************************************)
(* The filesystem layout the server runs in: directories, symbolic links   *)
(* and the files present at start.  Physical paths are component lists.    *)
(***************************************************************************)
W_docs == <<"docs">>
W_second == <<"second">>
W_out == <<"out">>
W_evil == <<"docs", "_evil">>
W_book == <<"book", ".xlsx">>
W_secret == <<"secret", ".xlsx">>
W_ro == <<"ro">>

\* symlink -> target string.  /lnk names the allowed directory through a
\* link; /docs/mal.xlsx leaves the allowed directory; /docs/good.xlsx stays in.
Links ==
    (<<<<"lnk">>>> :> <<"/", "docs">>)
    @@ (<<W_docs, <<"mal", ".xlsx">>>> :> <<"/", "out", "/", "secret", ".xlsx">>)
    @@ (<<W_docs, <<"good", ".xlsx">>>> :> <<"/", "docs", "/", "book", ".xlsx">>)
    @@ (<<W_docs, <<"new", ".xlsx">>>> :> <<"/", "out", "/", "planted", ".xlsx">>)
    @@ (<<W_docs, <<"gone", ".xlsx">>>> :> <<"/", "nowhere", "/", "x", ".xlsx">>)

InitDirs ==
    { <<>>, <<<<"work">>>>, <<W_docs>>, <<W_second>>, <<W_out>>, <<W_evil>>,
      <<<<"etc">>>>, <<W_docs, W_ro>> }

\* os.path.realpath / Path.resolve on the components of an absolute path:
\* links are followed as they are met and '..' is applied to the real parent.
RECURSIVE RealWalk(_, _)
RealWalk(cur, rest) ==
    IF rest = <<>> THEN cur
    ELSE LET c == Head(rest)
             t == Tail(rest)
         IN  IF c = DOTDOT
             THEN RealWalk(IF cur = <<>> THEN <<>> ELSE Front(cur), t)
             ELSE LET np == Append(cur, c) IN
                  IF np \in DOMAIN Links
                  THEN IF isabs(Links[np])
                       THEN RealWalk(<<>>, Comps(Links[np]) \o t)
                       ELSE RealWalk(cur, Comps(Links[np]) \o t)
                  ELSE RealWalk(np, t)

\* The physical location a path string denotes.
realparts(path) == RealWalk(<<>>, Comps(IF isabs(path) THEN path ELSE join(Cwd, path)))

Render(parts) == <<SEP>> \o JoinWith(parts, SEP)

\* Path(p).resolve() as a string.
resolve(path) == Render(realparts(path))

(***************************************************************************)
(* pathlib.PurePosixPath: parsing keeps '..', drops '.' and empty parts.   *)
(***************************************************************************)
PPath(s) == [abs |-> isabs(s), parts |-> Comps(s)]

PStr(p) ==
    IF p.abs THEN <<SEP>> \o JoinWith(p.parts, SEP)
    ELSE IF p.parts = <<>> THEN CURDIR ELSE JoinWith(p.parts, SEP)

PName(p) == IF p.parts = <<>> THEN <<>> ELSE Last(p.parts)

PJoin(p, s) == IF isabs(s) THEN PPath(s) ELSE [abs |-> p.abs, parts |-> p.parts \o Comps(s)]

\* a.relative_to(b) succeeds (does not raise ValueError), both resolved.
RelativeTo(a, b) == IsPrefix(Comps(b), Comps(a))

(***************************************************************************)
(* State.                                                                  *)
(***************************************************************************)
VARIABLES
    env,      \* os.environ: [set, value] of DIRECTORY
    files,    \* physical path -> file content, for the files that exist
    dirs,     \* physical paths that are directories
    config,   \* ConfigurationManager._config, the active snapshot
    last,     \* the last completed call: its input, what the gate did, its result
    ncalls,   \* number of calls made so far
    rpc,      \* reload_configuration in progress: where it stands
    cand,     \* the MCPExcelConfig object reload is building
    accepted, \* the configurations that have passed validation in full
    reads,    \* what a concurrent reader has obtained in its current call
    db,       \* the database table: the keys of the rows committed to it
    work      \* worker threads: the workbook call each one is in, and where

vars == <<env, files, dirs, config, last, ncalls, rpc, cand, accepted, reads, db, work>>

\* Bound on the number of calls in one behaviour.
MaxCalls == 2

(***************************************************************************)
(* File contents.  A workbook has sheets and cells; an empty file is what  *)
(* open(path, "a") leaves behind.                                          *)
(***************************************************************************)
SheetNames == {"Sheet1", "S2", "Sheet1_pivot"}

\* The cells of a sheet by row and column: Grid[row][column].
Grid == << <<"A1", "B1">>, <<"A2", "B2">>, <<"A3", "B3">>, <<"A4", "B4">> >>
NRows == Len(Grid)
NCols == Len(Grid[1])
CellRefs == {Grid[r][c] : r \in 1..NRows, c \in 1..NCols}
RowOf(ref) == CHOOSE r \in 1..NRows : \E c \in 1..NCols : Grid[r][c] = ref
ColOf(ref) == CHOOSE c \in 1..NCols : \E r \in 1..NRows : Grid[r][c] = ref
CellKeys == SheetNames \X CellRefs
Blank == <<>>

BlankCells == [k \in CellKeys |-> Blank]

EmptyFile == [kind |-> "empty", sheets |-> {}, cells |-> BlankCells]

NewWorkbook(sheets) == [kind |-> "workbook", sheets |-> sheets, cells |-> BlankCells]

V_one == <<"1">>
V_x == <<"x">>

\* A cell value is a number, held as the one element that names it, a text,
\* held as its characters, or Blank (None).
NumberOf == ("1" :> 1) @@ ("100" :> 100) @@ ("150" :> 150) @@ ("200" :> 200)
IsNumber(v) == Len(v) = 1 /\ v[1] \in DOMAIN NumberOf
V_100 == <<"100">>
V_150 == <<"150">>
V_200 == <<"200">>
V_Region == <<"R", "e", "g", "i", "o", "n">>
V_Sales == <<"S", "a", "l", "e", "s">>
V_North == <<"N", "o", "r", "t", "h">>
V_South == <<"S", "o", "u", "t", "h">>
V_old == <<"o", "l", "d">>

\* /docs/sales.xlsx: Sheet1 holds Region / Sales with three data rows, S2 is
\* empty, Sheet1_pivot holds an earlier summary.
SalesAtStart ==
    [kind |-> "workbook", sheets |-> {"Sheet1", "S2", "Sheet1_pivot"},
     cells |-> [k \in CellKeys |->
                  IF k[1] = "Sheet1"
                  THEN << <<V_Region, V_Sales>>, <<V_North, V_100>>,
                          <<V_North, V_200>>, <<V_South, V_150>> >>[RowOf(k[2])][ColOf(k[2])]
                  ELSE IF k = <<"Sheet1_pivot", "A1">> THEN V_old ELSE Blank]]

P_sales == <<W_docs, <<"sales", ".xlsx">>>>

BookAtStart ==
    [kind |-> "workbook", sheets |-> {"Sheet1", "S2"},
     cells |-> [k \in CellKeys |-> IF k = <<"Sheet1", "B1">> THEN V_one ELSE Blank]]

P_book == <<W_docs, W_book>>
P_secret == <<W_out, W_secret>>
P_locked == <<W_docs, <<"locked", ".xlsx">>>>
P_passwd == <<<<"etc">>, <<"passwd">>>>

InitFiles ==
    (P_book :> BookAtStart) @@ (P_secret :> BookAtStart)
    @@ (P_sales :> SalesAtStart)
    @@ (P_locked :> BookAtStart)
    @@ (P_passwd :> [kind |-> "text", sheets |-> {}, cells |-> BlankCells])

\* Paths the process has no write permission on (os.access(p, W_OK) is false).
ReadOnly == {P_locked, <<W_docs, W_ro>>}

(***************************************************************************)
(* os.path / open on the modelled filesystem.                              *)
(***************************************************************************)
exists(fs, ds, path) == realparts(path) \in (DOMAIN fs) \cup ds

isdir(ds, path) == realparts(path) \in ds

access_w(path) == realparts(path) \notin ReadOnly

ParentOf(parts) == IF parts = <<>> THEN <<>> ELSE Front(parts)

\* open(path, "a") / Workbook.save(path) can create or open the file for writing.
CanWrite(fs, ds, parts) ==
    /\ parts \notin ds
    /\ ParentOf(parts) \in ds
    /\ parts \notin ReadOnly
    /\ (parts \notin DOMAIN fs => ParentOf(parts) \notin ReadOnly)

\* The filesystem after open(path, "a") succeeded: the file exists, content kept.
Touch(fs, parts) == IF parts \in DOMAIN fs THEN fs ELSE (parts :> EmptyFile) @@ fs

PutFile(fs, parts, content) == (parts :> content) @@ fs

\* Path.mkdir(parents=True, exist_ok=True)
Prefixes(parts) == {SubSeq(parts, 1, n) : n \in 0..Len(parts)}
MkdirP(ds, parts) == ds \cup Prefixes(parts)
CanMkdirP(fs, parts) == Prefixes(parts) \cap DOMAIN fs = {}

(***************************************************************************)
(* utils/file_utils.py: the path resolver and access gate.                 *)
(***************************************************************************)
DefaultDirectory == <<".", "/", "documents">>

XLSX == ".xlsx"

\* os.environ.get("DIRECTORY", "./documents"), split on ',', stripped, abspath'd.
_get_allowed_directories(e) ==
    LET allowed_dirs_str == IF e.set THEN e.value ELSE DefaultDirectory
        parts            == Split(allowed_dirs_str, ",")
        allowed_dirs     == [i \in 1..Len(parts) |-> Strip(parts[i])]
    IN  [i \in 1..Len(allowed_dirs) |-> abspath(allowed_dirs[i])]

NoReason == [kind |-> "none", path |-> <<>>, dirs |-> <<>>]

\* (is_allowed, reason): commonpath on abspath'd strings.
_is_path_in_allowed_directories(e, file_path) ==
    LET allowed_dirs == _get_allowed_directories(e)
        abs_path     == abspath(file_path)
    IN  IF \E i \in 1..Len(allowed_dirs) :
               commonpath2(allowed_dirs[i], abs_path) = allowed_dirs[i]
        THEN [ok |-> TRUE, reason |-> NoReason]
        ELSE [ok |-> FALSE,
              reason |-> [kind |-> "not in allowed directories",
                          path |-> file_path, dirs |-> allowed_dirs]]

\* resolve_safe_path that hands back every absolute path as it came.
resolve_safe_path_keep_absolute(e, filename) ==
    LET path         == PPath(filename)
        allowed_dirs == _get_allowed_directories(e)
    IN  IF allowed_dirs = <<>>
        THEN [raised |-> TRUE, path |-> path]
        ELSE IF path.abs
        THEN [raised |-> FALSE, path |-> path]
        ELSE [raised |-> FALSE, path |-> PJoin(PPath(allowed_dirs[1]), filename)]

\* resolve_safe_path: [raised, path], path a pathlib path.
resolve_safe_path(e, filename) ==
    LET path         == PPath(filename)
        allowed_dirs == _get_allowed_directories(e)
        inside(d)    == RelativeTo(resolve(PStr(path)), resolve(d))
    IN  IF allowed_dirs = <<>>
        THEN [raised |-> TRUE, path |-> path]
        ELSE IF path.abs
        THEN IF \E i \in 1..Len(allowed_dirs) : inside(allowed_dirs[i])
             THEN [raised |-> FALSE, path |-> path]
             ELSE [raised |-> FALSE,
                   path |-> PJoin(PPath(allowed_dirs[1]), PName(path))]
        ELSE [raised |-> FALSE, path |-> PJoin(PPath(allowed_dirs[1]), filename)]

\* _check_file_writeable with the existence tests made ahead of the allow-list
\* test.
_check_file_writeable_exists_first(e, fs, ds, filename) ==
    LET abs_path   == abspath(filename)
        parent_dir == dirname(abs_path)
        allowed    == _is_path_in_allowed_directories(e, abs_path)
        target     == realparts(abs_path)
        probe      == IF CanWrite(fs, ds, target)
                      THEN [ok |-> TRUE, why |-> "", fs |-> Touch(fs, target)]
                      ELSE [ok |-> FALSE, why |-> "Write test failed", fs |-> fs]
    IN  IF exists(fs, ds, abs_path) /\ isdir(ds, abs_path)
        THEN [ok |-> FALSE, why |-> "Path is a directory", fs |-> fs]
        ELSE IF exists(fs, ds, abs_path) /\ ~access_w(abs_path)
        THEN [ok |-> FALSE, why |-> "Permission denied", fs |-> fs]
        ELSE IF ~allowed.ok
        THEN [ok |-> FALSE, why |-> allowed.reason.kind, fs |-> fs]
        ELSE IF ~exists(fs, ds, abs_path) /\ ~exists(fs, ds, parent_dir)
        THEN [ok |-> FALSE, why |-> "Directory does not exist", fs |-> fs]
        ELSE IF ~exists(fs, ds, abs_path) /\ ~access_w(parent_dir)
        THEN [ok |-> FALSE, why |-> "Directory not writeable", fs |-> fs]
        ELSE probe

\* _check_file_writeable: [ok, why, fs], fs the filesystem after the write probe.
_check_file_writeable(e, fs, ds, filename) ==
    LET abs_path   == abspath(filename)
        parent_dir == dirname(abs_path)
        allowed    == _is_path_in_allowed_directories(e, abs_path)
        target     == realparts(abs_path)
        probe      == IF CanWrite(fs, ds, target)
                      THEN [ok |-> TRUE, why |-> "", fs |-> Touch(fs, target)]
                      ELSE [ok |-> FALSE, why |-> "Write test failed", fs |-> fs]
    IN  IF ~allowed.ok
        THEN [ok |-> FALSE, why |-> allowed.reason.kind, fs |-> fs]
        ELSE IF exists(fs, ds, abs_path)
        THEN IF isdir(ds, abs_path)
             THEN [ok |-> FALSE, why |-> "Path is a directory", fs |-> fs]
             ELSE IF ~access_w(abs_path)
             THEN [ok |-> FALSE, why |-> "Permission denied", fs |-> fs]
             ELSE probe
        ELSE IF ~exists(fs, ds, parent_dir)
             THEN [ok |-> FALSE, why |-> "Directory does not exist", fs |-> fs]
             ELSE IF ~access_w(parent_dir)
             THEN [ok |-> FALSE, why |-> "Directory not writeable", fs |-> fs]
             ELSE probe

ensure_xlsx_extension(filename) ==
    IF ~EndsWith(filename, <<XLSX>>) THEN filename \o <<XLSX>> ELSE filename

\* The gate with the write probe made ahead of the allow-list test.
_validate_file_probe_first(e, fs, ds, filename) ==
    LET file_path == abspath(filename)
        allowed   == _is_path_in_allowed_directories(e, file_path)
        target    == realparts(file_path)
        probed    == IF CanWrite(fs, ds, target) THEN Touch(fs, target) ELSE fs
    IN  IF ~allowed.ok
        THEN [gate |-> "denied", checked |-> <<>>, why |-> "Access denied",
              fs |-> probed]
        ELSE IF ~CanWrite(fs, ds, target)
        THEN [gate |-> "unwritable", checked |-> <<>>, why |-> "Write access denied",
              fs |-> fs]
        ELSE [gate |-> "ok", checked |-> file_path, why |-> "", fs |-> probed]

\* validate_file_access.decorator._validate_file: the gate in front of a tool.
\* [gate, checked, why, fs]: checked is the path string the gate accepted.
_validate_file(e, fs, ds, filename) ==
    LET file_path == abspath(filename)
        allowed   == _is_path_in_allowed_directories(e, file_path)
        writable  == _check_file_writeable(e, fs, ds, file_path)
    IN  IF ~allowed.ok
        THEN [gate |-> "denied", checked |-> <<>>, why |-> "Access denied", fs |-> fs]
        ELSE IF ~writable.ok
        THEN [gate |-> "unwritable", checked |-> <<>>, why |-> "Write access denied",
              fs |-> writable.fs]
        ELSE [gate |-> "ok", checked |-> file_path, why |-> "", fs |-> writable.fs]

(***************************************************************************)
(* Inputs.                                                                 *)
(***************************************************************************)
F_rel == <<"a", ".xlsx">>
F_trav == <<"..", "/", "..", "/", "..", "/", "etc", "/", "passwd">>
F_in == <<"/", "docs", "/", "a", ".xlsx">>
F_noext == <<"/", "docs", "/", "report">>
F_book == <<"/", "docs", "/", "book", ".xlsx">>
F_booknoext == <<"/", "docs", "/", "book">>
F_out == <<"/", "out", "/", "a", ".xlsx">>
F_evil == <<"/", "docs", "_evil", "/", "a", ".xlsx">>
F_mal == <<"/", "docs", "/", "mal", ".xlsx">>
F_good == <<"/", "docs", "/", "good", ".xlsx">>
F_new == <<"/", "docs", "/", "new", ".xlsx">>
F_second == <<"/", "second", "/", "a", ".xlsx">>
F_outup == <<"/", "out", "/", "..">>
F_sub == <<"/", "docs", "/", "sub", "/", "a", ".xlsx">>
F_locked == <<"/", "docs", "/", "locked", ".xlsx">>
F_vialink == <<"/", "lnk", "/", "a", ".xlsx">>
F_dots == <<"/", "docs", "/", "..", "/", "out", "/", "a", ".xlsx">>
F_docs == <<"/", "docs">>
F_travout == <<"..", "/", "out", "/", "a", ".xlsx">>

Filenames ==
    { F_rel, F_trav, F_in, F_noext, F_book, F_booknoext, F_out, F_evil, F_mal,
      F_good, F_new, F_second, F_outup, F_sub, F_locked, F_vialink, F_dots, F_docs,
      F_travout }

F_gone == <<"/", "docs", "/", "gone", ".xlsx">>
F_ro == <<"/", "docs", "/", "ro", "/", "a", ".xlsx">>
F_nodir == <<"/", "docs", "/", "missing", "/", "a", ".xlsx">>

\* The filenames given to _check_file_writeable.
CheckFilenames == Filenames \cup {F_gone, F_ro, F_nodir}

\* The filenames given to the state-changing tools.
ToolFilenames ==
    { F_rel, F_trav, F_in, F_noext, F_book, F_out, F_mal, F_new, F_second, F_sub,
      F_travout }

D_docs == [set |-> TRUE, value |-> <<"/", "docs">>]
D_two == [set |-> TRUE, value |-> <<"/", "docs", ",", " ", "/", "second">>]
D_link == [set |-> TRUE, value |-> <<"/", "lnk">>]
D_trailing == [set |-> TRUE, value |-> <<"/", "docs", ",">>]
D_unset == [set |-> FALSE, value |-> <<>>]

EnvChoices == {D_docs, D_two, D_link, D_trailing, D_unset}

(***************************************************************************)
(* Results of calls.                                                       *)
(***************************************************************************)
\* A result: shape is "dict", "str", "tuple", "path" or "raise".
Ret(shape, keys, status) ==
    [shape |-> shape, keys |-> keys, status |-> status, ok |-> FALSE,
     reason |-> NoReason, value |-> <<>>]

ErrorDict(keys) == Ret("dict", keys \cup {"status", "message"}, "error")

Call(op, filename, gate, checked, opened, invoked, ret) ==
    [op |-> op, filename |-> filename, gate |-> gate, checked |-> checked,
     opened |-> opened, invoked |-> invoked, ret |-> ret,
     before |-> files, dirsBefore |-> dirs, cfgBefore |-> config,
     ov |-> <<>>, formula |-> <<>>, args |-> <<>>, events |-> <<>>]

(***************************************************************************)
(* core/workbook.py, core/data.py and the document library.                *)
(***************************************************************************)
\* openpyxl.load_workbook succeeds on an existing workbook file only.
CanLoad(fs, parts) == parts \in DOMAIN fs /\ fs[parts].kind = "workbook"

\* _validate_sheet_name does not raise: the name is not empty, holds none of
\* []:*?/\ and does not start with a quote.
InvalidSheetNames == {"", "S/2", "'S2"}

_validate_sheet_name(sheet_name) == sheet_name \notin InvalidSheetNames

\* create_workbook(filename): [err, fs, opened].  libok: the document library
\* accepts the save call it is given.
create_workbook(fs, ds, filename, sheet_name, libok) ==
    LET path == realparts(filename)
    IN  IF ~_validate_sheet_name(sheet_name)
        THEN [err |-> "WorkbookError", fs |-> fs, opened |-> {}]
        ELSE IF libok /\ CanWrite(fs, ds, path)
        THEN [err |-> "", fs |-> PutFile(fs, path, NewWorkbook({sheet_name})),
              opened |-> {path}]
        ELSE [err |-> IF libok /\ path \in ReadOnly
                      THEN "PermissionError" ELSE "WorkbookError",
              fs |-> fs, opened |-> {path}]

SetCell(wb, sheet, cell, v) ==
    [wb EXCEPT !.sheets = @ \cup {sheet}, !.cells[<<sheet, cell>>] = v]

\* _write_data_to_worksheet laying the rows out as columns.
_write_data_to_worksheet_transposed(wb, sheet, data, start_row, start_col) ==
    LET Hit(k) == { ij \in (1..Len(data)) \X (1..NCols) :
                      /\ ij[2] <= Len(data[ij[1]])
                      /\ start_row + ij[2] - 1 <= NRows
                      /\ start_col + ij[1] - 1 <= NCols
                      /\ Grid[start_row + ij[2] - 1][start_col + ij[1] - 1] = k[2]
                      /\ data[ij[1]][ij[2]] # Blank }
    IN  [wb EXCEPT !.sheets = @ \cup {sheet},
                   !.cells = [k \in CellKeys |->
                                IF k[1] = sheet /\ Hit(k) # {}
                                THEN LET ij == CHOOSE ij \in Hit(k) : TRUE
                                     IN  data[ij[1]][ij[2]]
                                ELSE @[k]]]

\* _write_data_to_worksheet: the values of data that are not None, laid out
\* from (start_row, start_col); the sheet is created when it is missing.
_write_data_to_worksheet(wb, sheet, data, start_row, start_col) ==
    LET Hit(k) == { ij \in (1..Len(data)) \X (1..NCols) :
                      /\ ij[2] <= Len(data[ij[1]])
                      /\ start_row + ij[1] - 1 <= NRows
                      /\ start_col + ij[2] - 1 <= NCols
                      /\ Grid[start_row + ij[1] - 1][start_col + ij[2] - 1] = k[2]
                      /\ data[ij[1]][ij[2]] # Blank }
    IN  [wb EXCEPT !.sheets = @ \cup {sheet},
                   !.cells = [k \in CellKeys |->
                                IF k[1] = sheet /\ Hit(k) # {}
                                THEN LET ij == CHOOSE ij \in Hit(k) : TRUE
                                     IN  data[ij[1]][ij[2]]
                                ELSE @[k]]]

\* write_data(filename, sheet_name, data, start_cell): [err, fs, ds, opened].
write_data(fs, ds, filename, sheet_name, data, start_cell) ==
    LET path   == realparts(filename)
        parent == ParentOf(path)
        there  == path \in (DOMAIN fs) \cup ds
        wb     == IF there THEN fs[path] ELSE NewWorkbook({})
        ds2    == MkdirP(ds, parent)
    IN  IF data = <<>>
        THEN [err |-> "InvalidDataError", fs |-> fs, ds |-> ds, opened |-> {}]
        ELSE IF there /\ ~CanLoad(fs, path)
        THEN [err |-> "WorkbookError", fs |-> fs, ds |-> ds, opened |-> {path}]
        ELSE IF start_cell \notin CellRefs
        THEN [err |-> "InvalidCellReferenceError", fs |-> fs, ds |-> ds,
              opened |-> {path}]
        ELSE IF ~CanMkdirP(fs, parent)
        THEN [err |-> "WorkbookError", fs |-> fs, ds |-> ds, opened |-> {path}]
        ELSE IF ~CanWrite(fs, ds2, path)
        THEN [err |-> "WorkbookError", fs |-> fs, ds |-> ds2, opened |-> {path}]
        ELSE [err |-> "",
              fs |-> PutFile(fs, path,
                             _write_data_to_worksheet(wb, sheet_name, data,
                                                      RowOf(start_cell), ColOf(start_cell))),
              ds |-> ds2, opened |-> {path}]

\* sheet_utils.delete_sheet: load, remove the sheet, save to the same path.
delete_sheet(fs, ds, filename, sheet_name) ==
    LET path == realparts(filename)
        wb   == fs[path]
        wb2  == [wb EXCEPT !.sheets = @ \ {sheet_name},
                           !.cells = [k \in CellKeys |->
                                        IF k[1] = sheet_name THEN Blank ELSE @[k]]]
    IN  IF ~CanLoad(fs, path)
        THEN [err |-> "SheetError", fs |-> fs, opened |-> {path}]
        ELSE IF sheet_name \notin wb.sheets \/ Cardinality(wb.sheets) = 1
        THEN [err |-> "SheetError", fs |-> fs, opened |-> {path}]
        ELSE IF ~CanWrite(fs, ds, path)
        THEN [err |-> "SheetError", fs |-> fs, opened |-> {path}]
        ELSE [err |-> "", fs |-> PutFile(fs, path, wb2), opened |-> {path}]

(***************************************************************************)
(* tools/: the tool surface.                                               *)
(***************************************************************************)
\* tools/excel_tools.py create_excel_workbook
create_excel_workbook(filename, libok) ==
    /\ ncalls < MaxCalls
    /\ \E r \in {resolve_safe_path(env, filename)} :
       \E cw \in {create_workbook(files, dirs, PStr(r.path), "Sheet1", libok)} :
        /\ ncalls' = ncalls + 1
        /\ files' = IF r.raised THEN files ELSE cw.fs
        /\ last' = Call("create_excel_workbook", filename, "none", <<>>,
                        IF r.raised THEN {} ELSE cw.opened, TRUE,
                        IF ~r.raised /\ cw.err = ""
                        THEN Ret("dict", {"message", "active_sheet", "filepath"}, "")
                        ELSE Ret("dict", {"error"}, ""))
        /\ UNCHANGED <<env, db, work, dirs, config, rpc, cand, accepted, reads>>

\* tools/content_tools.py write_data_to_excel, behind validate_file_access
write_data_to_excel(filename, sheet_name, cell, v) ==
    /\ ncalls < MaxCalls
    /\ \E g \in {_validate_file(env, files, dirs, filename)} :
       \E wd \in {write_data(g.fs, dirs, ensure_xlsx_extension(filename),
                          sheet_name, <<<<v>>>>, cell)} :
        /\ ncalls' = ncalls + 1
        /\ IF g.gate # "ok"
           THEN /\ files' = g.fs
                /\ dirs' = dirs
                /\ last' = Call("write_data_to_excel", filename, g.gate, g.checked, {},
                                FALSE, ErrorDict({"path"}))
           ELSE /\ files' = wd.fs
                /\ dirs' = wd.ds
                /\ last' = Call("write_data_to_excel", filename, g.gate, g.checked,
                                wd.opened, TRUE, Ret("str", {}, ""))
        /\ UNCHANGED <<env, db, work, config, rpc, cand, accepted, reads>>

\* tools/format_tools.py delete_worksheet
delete_worksheet(filename, sheet_name) ==
    /\ ncalls < MaxCalls
    /\ \E r \in {delete_sheet(files, dirs, ensure_xlsx_extension(filename), sheet_name)} :
        /\ ncalls' = ncalls + 1
        /\ files' = r.fs
        /\ last' = Call("delete_worksheet", filename, "none", <<>>, r.opened, TRUE,
                        IF r.err = "" THEN Ret("dict", {"status", "message"}, "success")
                        ELSE ErrorDict({}))
        /\ UNCHANGED <<env, db, work, dirs, config, rpc, cand, accepted, reads>>

\* A direct call of resolve_safe_path.
call_resolve_safe_path(filename) ==
    /\ ncalls < MaxCalls
    /\ \E r \in {resolve_safe_path(env, filename)} :
        /\ ncalls' = ncalls + 1
        /\ last' = Call("resolve_safe_path", filename, "none", <<>>, {}, TRUE,
                        [Ret(IF r.raised THEN "raise" ELSE "path", {}, "")
                           EXCEPT !.value = PStr(r.path)])
        /\ UNCHANGED <<env, db, work, files, dirs, config, rpc, cand, accepted, reads>>

\* A direct call of _is_path_in_allowed_directories.
call_is_path_in_allowed_directories(filename) ==
    /\ ncalls < MaxCalls
    /\ \E r \in {_is_path_in_allowed_directories(env, filename)} :
        /\ ncalls' = ncalls + 1
        /\ last' = Call("is_path_in_allowed_directories", filename, "none", <<>>, {},
                        TRUE,
                        [Ret("tuple", {}, "") EXCEPT !.ok = r.ok, !.reason = r.reason])
        /\ UNCHANGED <<env, db, work, files, dirs, config, rpc, cand, accepted, reads>>

\* A direct call of _check_file_writeable.
call_check_file_writeable(filename) ==
    /\ ncalls < MaxCalls
    /\ \E r \in {_check_file_writeable(env, files, dirs, filename)} :
        /\ ncalls' = ncalls + 1
        /\ files' = r.fs
        /\ last' = Call("check_file_writeable", filename, "none", <<>>, {}, TRUE,
                        [Ret("tuple", {}, "")
                           EXCEPT !.ok = r.ok, !.reason = [NoReason EXCEPT !.kind = r.why]])
        /\ UNCHANGED <<env, db, work, dirs, config, rpc, cand, accepted, reads>>

(***************************************************************************)
(* config.py: the configuration store.                                     *)
(***************************************************************************)
None == <<"<None>">>

PG == "postgresql://"
PGS == "postgres://"

\* DatabaseConfig.validate_connection_string does not raise.
validate_connection_string(v) ==
    \/ v = None
    \/ /\ (StartsWith(v, <<PG>>) \/ StartsWith(v, <<PGS>>))
       /\ Contains(v, "@")
       /\ Contains(Split(v, "@")[2], SEP)

InvalidPatterns ==
    { <<"/", "path", "/", "that", "/", "does", "/", "not", "/", "exist">>,
      <<"/", "invalid", "/", "path">> }

RECURSIVE HasSub(_, _)
HasSub(s, sub) ==
    IF Len(s) < Len(sub) THEN FALSE
    ELSE StartsWith(s, sub) \/ HasSub(Tail(s), sub)

\* FileConfig.validate_directory: [ok, ds], ds the directories after mkdir.
validate_directory(fs, ds, v) ==
    LET path  == realparts(v)
        spath == Render(path)
    IN  IF v = None \/ Strip(v) = <<>>
        THEN [ok |-> FALSE, ds |-> ds]
        ELSE IF spath \in InvalidPatterns
                \/ HasSub(spath, <<"/", "path", "/", "that", "/">>)
        THEN [ok |-> FALSE, ds |-> ds]
        ELSE IF path \in (DOMAIN fs) \cup ds
        THEN [ok |-> path \in ds /\ path \notin ReadOnly, ds |-> ds]
        ELSE IF CanMkdirP(fs, path) /\ \A q \in Prefixes(path) \cap ds : q \notin ReadOnly
        THEN [ok |-> TRUE, ds |-> MkdirP(ds, path)]
        ELSE [ok |-> FALSE, ds |-> ds]

LogLevels == {<<"DEBUG">>, <<"INFO">>, <<"WARNING">>, <<"ERROR">>, <<"CRITICAL">>}

\* An argument that may be left out.
Given(v) == [given |-> TRUE, v |-> v]
Omitted == [given |-> FALSE, v |-> None]

UserConfigDirectory == <<"${user_config.directory}">>

\* MCPExcelConfig._process_user_config_variables on one keyword argument.
\* The model's environment sets no variable but DIRECTORY.
_process_user_config_variables(e, arg) ==
    IF arg.given /\ arg.v = UserConfigDirectory
    THEN IF e.set /\ e.value # <<>> THEN Given(e.value) ELSE Given(None)
    ELSE arg

\* MCPExcelConfig field construction (pydantic-settings): override, else the
\* environment, else the default; [ok, cfg], ok when the field types and the
\* log_level pattern are satisfied.
BuildConfig(e, ov) ==
    LET d   == _process_user_config_variables(e, ov.directory)
        cfg == [postgres_connection_string |->
                    IF ov.postgres_connection_string.given
                    THEN ov.postgres_connection_string.v ELSE None,
                directory |->
                    IF d.given THEN d.v
                    ELSE IF e.set THEN e.value ELSE DefaultDirectory,
                log_level |-> IF ov.log_level.given THEN ov.log_level.v ELSE <<"INFO">>]
    IN  [ok |-> cfg.directory # None /\ cfg.log_level \in LogLevels, cfg |-> cfg]

\* MCPExcelConfig._validate_configuration: the database string, then the directory.
_validate_configuration(fs, ds, cfg) ==
    IF cfg.postgres_connection_string \notin {None, <<>>}
       /\ ~validate_connection_string(cfg.postgres_connection_string)
    THEN [ok |-> FALSE, ds |-> ds]
    ELSE validate_directory(fs, ds, cfg.directory)

\* _load_configuration with self._config stored as soon as the object is built,
\* ahead of its validation.
_load_configuration_assign_first(e, fs, ds, current, ov) ==
    LET b == BuildConfig(e, ov)
        v == _validate_configuration(fs, ds, b.cfg)
    IN  IF b.ok /\ v.ok
        THEN [ok |-> TRUE, cfg |-> b.cfg, ds |-> v.ds]
        ELSE [ok |-> FALSE, cfg |-> IF b.ok THEN b.cfg ELSE current,
              ds |-> IF b.ok THEN v.ds ELSE ds]

\* ConfigurationManager._load_configuration: [ok, cfg, ds]
\* cfg is the value of self._config afterwards.
_load_configuration(e, fs, ds, current, ov) ==
    LET b == BuildConfig(e, ov)
        v == _validate_configuration(fs, ds, b.cfg)
    IN  IF b.ok /\ v.ok
        THEN [ok |-> TRUE, cfg |-> b.cfg, ds |-> v.ds]
        ELSE [ok |-> FALSE, cfg |-> current, ds |-> IF b.ok THEN v.ds ELSE ds]

Ov(pg, d, lvl) == [postgres_connection_string |-> pg, directory |-> d, log_level |-> lvl]

C_pg == <<PG, "user", ":", "pass", "@", "host", "/", "db">>
C_pgs == <<PGS, "user", "@", "host", "/", "db">>
C_bad == <<"invalid://", "not-postgres">>
C_noat == <<PG, "host", "/", "db">>
C_noslash == <<PG, "user", "@", "host">>

Dir_second == <<"/", "second">>
Dir_invalid == <<"/", "invalid", "/", "path">>
Dir_blank == <<" ">>
Dir_file == <<"/", "etc", "/", "passwd">>
Dir_new == <<"/", "docs", "/", "sub">>

Overrides ==
    { Ov(Omitted, Omitted, Omitted),
      Ov(Omitted, Given(Dir_second), Omitted),
      Ov(Omitted, Given(F_docs), Given(<<"DEBUG">>)),
      Ov(Omitted, Given(Dir_invalid), Omitted),
      Ov(Omitted, Given(Dir_blank), Omitted),
      Ov(Omitted, Given(Dir_file), Given(<<"DEBUG">>)),
      Ov(Omitted, Given(Dir_new), Omitted),
      Ov(Omitted, Given(UserConfigDirectory), Omitted),
      Ov(Given(C_pg), Omitted, Omitted),
      Ov(Given(C_pgs), Given(Dir_second), Omitted),
      Ov(Given(C_bad), Given(Dir_second), Omitted),
      Ov(Given(C_noat), Given(Dir_new), Given(<<"DEBUG">>)),
      Ov(Given(C_noslash), Omitted, Omitted),
      Ov(Omitted, Given(Dir_second), Given(<<"TRACE">>)) }

\* ConfigurationManager.reload_configuration
reload_configuration(ov) ==
    /\ ncalls < MaxCalls
    /\ \E r \in {_load_configuration(env, files, dirs, config, ov)} :
        /\ rpc = "idle"
        /\ ncalls' = ncalls + 1
        /\ config' = r.cfg
        /\ dirs' = r.ds
        /\ accepted' = IF r.ok THEN accepted \cup {r.cfg} ELSE accepted
        /\ last' = [Call("reload_configuration", <<>>, "none", <<>>, {}, TRUE,
                         Ret(IF r.ok THEN "none" ELSE "raise", {}, ""))
                      EXCEPT !.ov = ov]
        /\ UNCHANGED <<env, db, work, files, rpc, cand, reads>>

get_directory(cfg) == cfg.directory
get_postgres_connection_string(cfg) == cfg.postgres_connection_string
get_log_level(cfg) == cfg.log_level

\* ConfigurationManager.validate_file_path does not raise ConfigurationError.
validate_file_path(cfg, file_path) ==
    RelativeTo(resolve(file_path), resolve(get_directory(cfg)))

call_validate_file_path(filename) ==
    /\ ncalls < MaxCalls
    /\ \E r \in {validate_file_path(config, filename)} :
        /\ ncalls' = ncalls + 1
        /\ last' = Call("validate_file_path", filename, "none", <<>>, {}, TRUE,
                        [Ret(IF r THEN "str" ELSE "raise", {}, "") EXCEPT !.ok = r])
        /\ UNCHANGED <<env, db, work, files, dirs, config, rpc, cand, accepted, reads>>

(***************************************************************************)
(* Formulas are sequences of characters.                                   *)
(* utils/validation_utils.py validate_formula and core/calculations.py.    *)
(***************************************************************************)
Alpha_U == << "A", "B", "C", "D", "E", "F", "G", "H", "I", "J", "K", "L", "M",
              "N", "O", "P", "Q", "R", "S", "T", "U", "V", "W", "X", "Y", "Z" >>
Alpha_L == << "a", "b", "c", "d", "e", "f", "g", "h", "i", "j", "k", "l", "m",
              "n", "o", "p", "q", "r", "s", "t", "u", "v", "w", "x", "y", "z" >>
\* A run of RunLength nines, held as one element of a formula: every pattern
\* of the validators treats a run of digits as it treats one digit, only the
\* length differs.
RunLength == 8185
Nines == "9..9"

Digits == {"0", "1", "2", "3", "4", "5", "6", "7", "8", "9", Nines}

IsUpper(c) == \E i \in 1..Len(Alpha_U) : Alpha_U[i] = c
IsLower(c) == \E i \in 1..Len(Alpha_L) : Alpha_L[i] = c
ToUpper(c) == IF IsLower(c) THEN Alpha_U[CHOOSE i \in 1..Len(Alpha_L) : Alpha_L[i] = c] ELSE c
ToLower(c) == IF IsUpper(c) THEN Alpha_L[CHOOSE i \in 1..Len(Alpha_U) : Alpha_U[i] = c] ELSE c
Upper(s) == [i \in 1..Len(s) |-> ToUpper(s[i])]
Lower(s) == [i \in 1..Len(s) |-> ToLower(s[i])]
IsSpace(c) == c = " "
Count(s, c) == Cardinality({i \in 1..Len(s) : s[i] = c})

\* len(s) in characters.
StrLen(s) == Len(s) + (RunLength - 1) * Count(s, Nines)

\* The parenthesis depth after the first n characters.
RECURSIVE Depth(_, _)
Depth(s, n) ==
    IF n = 0 THEN 0
    ELSE Depth(s, n - 1) + (IF s[n] = "(" THEN 1 ELSE IF s[n] = ")" THEN 0 - 1 ELSE 0)

\* re.findall(r"([A-Z]+)\(", s): the runs of capitals that end at a '('.
FindallBase(s) ==
    { SubSeq(s, a, b) : <<a, b>> \in
        { ab \in (1..Len(s)) \X (1..Len(s)) :
            /\ ab[1] <= ab[2]
            /\ ab[2] < Len(s) /\ s[ab[2] + 1] = "("
            /\ \A i \in ab[1]..ab[2] : IsUpper(s[i])
            /\ (ab[1] = 1 \/ ~IsUpper(s[ab[1] - 1])) } }

UnsafeFuncs ==
    { <<"I", "N", "D", "I", "R", "E", "C", "T">>,
      <<"H", "Y", "P", "E", "R", "L", "I", "N", "K">>,
      <<"W", "E", "B", "S", "E", "R", "V", "I", "C", "E">>,
      <<"D", "G", "E", "T">>,
      <<"R", "T", "D">> }

\* validate_formula: [ok, msg]
validate_formula(formula) ==
    LET body == Tail(formula)
    IN  IF ~StartsWith(formula, <<"=">>)
        THEN [ok |-> FALSE, msg |-> "Formula must start with '='"]
        ELSE IF \E n \in 1..Len(body) : Depth(body, n) < 0
        THEN [ok |-> FALSE, msg |-> "Unmatched closing parenthesis"]
        ELSE IF Depth(body, Len(body)) > 0
        THEN [ok |-> FALSE, msg |-> "Unclosed parenthesis"]
        ELSE IF FindallBase(body) \cap UnsafeFuncs # {}
        THEN [ok |-> FALSE, msg |-> "Unsafe function"]
        ELSE [ok |-> TRUE, msg |-> "Formula is valid"]

DANGEROUS_FUNCTIONS ==
    { <<"C", "A", "L", "L">>, <<"E", "X", "E", "C">>, <<"R", "U", "N">>,
      <<"S", "Y", "S", "T", "E", "M">>, <<"S", "H", "E", "L", "L">>,
      <<"E", "V", "A", "L">>,
      <<"R", "E", "G", "I", "S", "T", "E", "R", ".", "I", "D">>,
      <<"X", "L", "M", ".", "C", "A", "L", "L">>,
      <<"X", "L", "M", ".", "E", "X", "E", "C">>,
      <<"X", "L", "M", ".", "R", "U", "N">>,
      <<"R", "E", "G", "I", "S", "T", "E", "R">>,
      <<"C", "A", "L", "L", ".", "L", "I", "B", "R", "A", "R", "Y">>,
      <<"V", "B", "A", ".", "C", "A", "L", "L">> }

IsNameChar(c) == IsUpper(c) \/ c \in Digits \/ c \in {"_", "."}

\* re.findall(r"([A-Z][A-Z0-9_.]*)\s*\(", s): from the first capital of the run
\* of name characters that reaches a '(' across optional white space.
FindallSecure(s) ==
    { SubSeq(s, a, b) : <<a, b>> \in
        { ab \in (1..Len(s)) \X (1..Len(s)) :
            /\ ab[1] <= ab[2]
            /\ IsUpper(s[ab[1]])
            /\ \A i \in ab[1]..ab[2] : IsNameChar(s[i])
            /\ \A i \in 1..(ab[1] - 1) :
                   (\A j \in i..ab[1] : IsNameChar(s[j])) => ~IsUpper(s[i])
            /\ \E p \in (ab[2] + 1)..Len(s) :
                   /\ s[p] = "("
                   /\ \A j \in (ab[2] + 1)..(p - 1) : IsSpace(s[j])
            /\ ~IsNameChar(s[ab[2] + 1]) } }

\* A plain substring.
Lit(s, sub) == HasSub(s, sub)

\* word, then optional white space, then '('  (eval\s*\( and open\s*\()
CallOf(s, word) ==
    \E a \in 1..Len(s) :
        /\ Len(s) >= a + Len(word)
        /\ SubSeq(s, a, a + Len(word) - 1) = word
        /\ \E p \in (a + Len(word))..Len(s) :
               /\ s[p] = "("
               /\ \A j \in (a + Len(word))..(p - 1) : IsSpace(s[j])

IsWordChar(c) == IsUpper(c) \/ IsLower(c) \/ c \in Digits \/ c = "_"

\* \b(?:http|ftp|https)://
UrlScheme(s) ==
    \E scheme \in { <<"h", "t", "t", "p">>, <<"f", "t", "p">>,
                    <<"h", "t", "t", "p", "s">> } :
        \E a \in 1..Len(s) :
            /\ Len(s) >= a + Len(scheme) + 2
            /\ SubSeq(s, a, a + Len(scheme) + 2) = scheme \o <<":", "/", "/">>
            /\ (a = 1 \/ ~IsWordChar(s[a - 1]))

\* some pattern of INJECTION_PATTERNS is found by re.search
INJECTION_PATTERNS(s) ==
    \/ UrlScheme(s)
    \/ Lit(s, <<"<", "s", "c", "r", "i", "p", "t">>)
    \/ Lit(s, <<"d", "o", "c", "u", "m", "e", "n", "t", ".", "w", "r", "i", "t", "e">>)
    \/ CallOf(s, <<"e", "v", "a", "l">>)
    \/ Lit(s, <<"_", "_", "i", "m", "p", "o", "r", "t", "_", "_">>)
    \/ Lit(s, <<"o", "s", ".">>)
    \/ Lit(s, <<"s", "u", "b", "p", "r", "o", "c", "e", "s", "s">>)
    \/ Lit(s, <<"s", "y", "s", ".", "e", "x", "i", "t">>)
    \/ CallOf(s, <<"o", "p", "e", "n">>)
    \/ Lit(s, <<"f", "i", "l", "e", ":", "/", "/">>)

MAX_FORMULA_LENGTH == 8192

\* validate_formula_secure with the length test made first.
validate_formula_secure_length_first(formula) ==
    LET stripped   == Strip(formula)
        normalized == IF StartsWith(stripped, <<"=">>) THEN stripped
                      ELSE <<"=">> \o stripped
    IN  IF stripped = <<>>
        THEN [ok |-> FALSE, msg |-> "Formula cannot be empty"]
        ELSE IF StrLen(normalized) > MAX_FORMULA_LENGTH
        THEN [ok |-> FALSE, msg |-> "Formula exceeds maximum length"]
        ELSE IF FindallSecure(Upper(normalized)) \cap DANGEROUS_FUNCTIONS # {}
        THEN [ok |-> FALSE, msg |-> "Dangerous functions detected"]
        ELSE IF INJECTION_PATTERNS(Lower(normalized))
        THEN [ok |-> FALSE, msg |-> "Suspicious pattern detected"]
        ELSE IF Count(normalized, "(") # Count(normalized, ")")
        THEN [ok |-> FALSE, msg |-> "Unbalanced parentheses"]
        ELSE validate_formula(normalized)

\* validate_formula_secure matching function names as they are written.
validate_formula_secure_case_sensitive(formula) ==
    LET stripped   == Strip(formula)
        normalized == IF StartsWith(stripped, <<"=">>) THEN stripped
                      ELSE <<"=">> \o stripped
    IN  IF stripped = <<>>
        THEN [ok |-> FALSE, msg |-> "Formula cannot be empty"]
        ELSE IF FindallSecure(normalized) \cap DANGEROUS_FUNCTIONS # {}
        THEN [ok |-> FALSE, msg |-> "Dangerous functions detected"]
        ELSE IF INJECTION_PATTERNS(Lower(normalized))
        THEN [ok |-> FALSE, msg |-> "Suspicious pattern detected"]
        ELSE IF Count(normalized, "(") # Count(normalized, ")")
        THEN [ok |-> FALSE, msg |-> "Unbalanced parentheses"]
        ELSE IF StrLen(normalized) > MAX_FORMULA_LENGTH
        THEN [ok |-> FALSE, msg |-> "Formula exceeds maximum length"]
        ELSE validate_formula(normalized)

\* validate_formula_secure: [ok, msg]
validate_formula_secure(formula) ==
    LET stripped   == Strip(formula)
        normalized == IF StartsWith(stripped, <<"=">>) THEN stripped
                      ELSE <<"=">> \o stripped
    IN  IF stripped = <<>>
        THEN [ok |-> FALSE, msg |-> "Formula cannot be empty"]
        ELSE IF FindallSecure(Upper(normalized)) \cap DANGEROUS_FUNCTIONS # {}
        THEN [ok |-> FALSE, msg |-> "Dangerous functions detected"]
        ELSE IF INJECTION_PATTERNS(Lower(normalized))
        THEN [ok |-> FALSE, msg |-> "Suspicious pattern detected"]
        ELSE IF Count(normalized, "(") # Count(normalized, ")")
        THEN [ok |-> FALSE, msg |-> "Unbalanced parentheses"]
        ELSE IF StrLen(normalized) > MAX_FORMULA_LENGTH
        THEN [ok |-> FALSE, msg |-> "Formula exceeds maximum length"]
        ELSE validate_formula(normalized)

Fm_sum == <<"=", "S", "U", "M", "(", "A", "1", ")">>
Fm_system == <<"=", "S", "Y", "S", "T", "E", "M", "(", "'", "w", "'", ")">>
Fm_lower == <<"=", "s", "y", "s", "t", "e", "m", "(", "'", "w", "'", ")">>
Fm_indirect == <<"=", "I", "N", "D", "I", "R", "E", "C", "T", "(", "A", "1", ")">>
Fm_unclosed == <<"=", "S", "U", "M", "(", "A", "1">>
Fm_bare == <<"S", "U", "M", "(", "A", "1", ")">>

Formulas == {Fm_sum, Fm_system, Fm_lower, Fm_indirect, Fm_unclosed, Fm_bare}

\* The formulas given to validate_formula_secure: white space or '=' in front,
\* a function name, white space or none before the arguments, the arguments.
FormulaNames ==
    { <<>>, <<"S", "U", "M">>, <<"C", "A", "L", "L">>, <<"c", "a", "l", "l">>,
      <<"I", "N", "D", "I", "R", "E", "C", "T">>, <<"i", "n", "d", "i", "r", "e", "c", "t">>,
      <<"I", "n", "d", "i", "r", "e", "c", "t">>, <<"e", "v", "a", "l">>,
      <<"o", "s", ".">>, <<"A", ".", "R", "U", "N">>, <<"_", "R", "u", "n">> }

FormulaArgs ==
    { <<>>, <<"(", "A", "1", ")">>, <<"(", "A", "1">>, <<")", "(">>,
      <<"(", Nines, ")">>, <<"(", Nines, "1", ")">>, <<"(", Nines, "1", "1", ")">>,
      <<"(", Nines, "1", "1">> }

FormulaInputs ==
    { pre \o name \o gap \o args :
        pre \in {<<>>, <<"=">>, <<" ">>}, name \in FormulaNames,
        gap \in {<<>>, <<" ">>}, args \in FormulaArgs }

IsFormula(v) == v # <<>> /\ v[1] = "="

\* cell_utils.validate_cell_reference
validate_cell_reference(cell) == cell \in CellRefs

\* load_workbook(path, data_only=True): formula cells come back as their
\* cached values, which a workbook written by the document library lacks.
LoadDataOnly(wb) ==
    [wb EXCEPT !.cells = [k \in CellKeys |-> IF IsFormula(@[k]) THEN Blank ELSE @[k]]]

\* get_or_create_workbook: [err, wb]
get_or_create_workbook(fs, ds, filename) ==
    LET path == realparts(filename)
    IN  IF path \in (DOMAIN fs) \cup ds
        THEN IF CanLoad(fs, path)
             THEN [err |-> "", wb |-> LoadDataOnly(fs[path])]
             ELSE [err |-> "WorkbookError", wb |-> EmptyFile]
        ELSE [err |-> "", wb |-> NewWorkbook({"Sheet1"})]

\* core/calculations.py apply_formula: [err, fs, opened]
apply_formula(fs, ds, filename, sheet_name, cell, formula) ==
    LET path == realparts(filename)
        g    == get_or_create_workbook(fs, ds, filename)
        f    == IF StartsWith(formula, <<"=">>) THEN formula ELSE <<"=">> \o formula
    IN  IF ~validate_cell_reference(cell)
        THEN [err |-> "ValidationError", fs |-> fs, opened |-> {}]
        ELSE IF g.err # ""
        THEN [err |-> g.err, fs |-> fs, opened |-> {path}]
        ELSE IF sheet_name \notin g.wb.sheets
        THEN [err |-> "ValidationError", fs |-> fs, opened |-> {path}]
        ELSE IF ~validate_formula(f).ok
        THEN [err |-> "FormulaError", fs |-> fs, opened |-> {path}]
        ELSE IF ~CanWrite(fs, ds, path)
        THEN [err |-> "FormulaError", fs |-> fs, opened |-> {path}]
        ELSE [err |-> "",
              fs |-> PutFile(fs, path, SetCell(g.wb, sheet_name, cell, f)),
              opened |-> {path}]

SuccessDict(keys) == Ret("dict", keys \cup {"status", "message"}, "success")

\* core/calculations.py apply_formula_secure, called directly
apply_formula_secure(filename, sheet_name, cell, formula) ==
    /\ ncalls < MaxCalls
    /\ \E v \in {validate_formula_secure(formula)} :
       \E r \in {apply_formula(files, dirs, filename, sheet_name, cell, formula)} :
        /\ ncalls' = ncalls + 1
        /\ files' = IF v.ok THEN r.fs ELSE files
        /\ last' = [Call("apply_formula_secure", filename, "none", <<>>,
                         IF v.ok THEN r.opened ELSE {}, TRUE,
                         IF ~v.ok THEN ErrorDict({"security_error", "cell"})
                         ELSE IF r.err = "" THEN SuccessDict({"cell", "formula"})
                         ELSE IF r.err \in {"FormulaError", "ValidationError"}
                         THEN ErrorDict({"cell"})
                         ELSE Ret("raise", {}, ""))
                      EXCEPT !.formula = formula]
        /\ UNCHANGED <<env, db, work, dirs, config, rpc, cand, accepted, reads>>

(***************************************************************************)
(* core/data.py read_excel_range and core/pivot.py.                        *)
(***************************************************************************)
CellOf(wb, sheet, r, c) == wb.cells[<<sheet, Grid[r][c]>>]

\* worksheet.max_row / max_column: the extent of the cells that hold a value,
\* 1 for an empty sheet.
max_row(wb, sheet) ==
    LET used == {r \in 1..NRows : \E c \in 1..NCols : CellOf(wb, sheet, r, c) # Blank}
    IN  IF used = {} THEN 1 ELSE CHOOSE r \in used : \A q \in used : q <= r

max_column(wb, sheet) ==
    LET used == {c \in 1..NCols : \E r \in 1..NRows : CellOf(wb, sheet, r, c) # Blank}
    IN  IF used = {} THEN 1 ELSE CHOOSE c \in used : \A q \in used : q <= c

\* _get_used_range: <<end_row, end_col>>, the last row and column before the
\* first empty one at or after the start.
_get_used_range(wb, sheet, start_row, start_col) ==
    LET mr      == max_row(wb, sheet)
        mc      == max_column(wb, sheet)
        stopRow == {r \in start_row..(mr + 1) :
                      r > mr \/ \A c \in start_col..mc : CellOf(wb, sheet, r, c) = Blank}
        stopCol == {c \in start_col..(mc + 1) :
                      c > mc \/ \A r \in start_row..mr : CellOf(wb, sheet, r, c) = Blank}
        first(S, d) == IF S = {} THEN d ELSE CHOOSE x \in S : \A y \in S : x <= y
    IN  <<first(stopRow, start_row) - 1, first(stopCol, start_col) - 1>>

\* read_excel_range(filename, sheet_name, start_cell, end_cell): [err, data].
\* data is a list of rows, each a list of cell values; end_cell "" is None.
\* The workbook is loaded with data_only=True; rows without a value are left out.
read_excel_range(fs, ds, filename, sheet_name, start_cell, end_cell) ==
    LET path == realparts(filename)
        Fail(e) == [err |-> e, data |-> <<>>]
    IN  IF path \notin (DOMAIN fs) \cup ds THEN Fail("FileNotFoundError")
        ELSE IF ~CanLoad(fs, path) THEN Fail("DataError")
        ELSE IF sheet_name \notin fs[path].sheets THEN Fail("SheetNotFoundError")
        ELSE IF start_cell \notin CellRefs THEN Fail("InvalidCellReferenceError")
        ELSE IF end_cell # "" /\ end_cell \notin CellRefs
        THEN Fail("InvalidCellReferenceError")
        ELSE
        LET wb        == LoadDataOnly(fs[path])
            start_row == RowOf(start_cell)
            start_col == ColOf(start_cell)
            used      == _get_used_range(wb, sheet_name, start_row, start_col)
            end_row   == IF end_cell # "" THEN RowOf(end_cell) ELSE used[1]
            end_col   == IF end_cell # "" THEN ColOf(end_cell) ELSE used[2]
            mr        == max_row(wb, sheet_name)
            mc        == max_column(wb, sheet_name)
            lastRow   == IF end_row < mr THEN end_row ELSE mr
            lastCol   == IF end_col < mc THEN end_col ELSE mc
            row_data(r) == [j \in 1..(lastCol - start_col + 1) |->
                              CellOf(wb, sheet_name, r, start_col + j - 1)]
            HasValue(row) == \E j \in 1..Len(row) : row[j] # Blank
        IN  IF start_row > mr \/ start_col > mc THEN Fail("RangeError")
            ELSE [err |-> "",
                  data |-> SelectSeq([i \in 1..(lastRow - start_row + 1) |->
                                        row_data(start_row + i - 1)], HasValue)]

\* create_sheet(filename, sheet_name): [err, fs, opened].  A missing file is
\* created with the sheet; an existing one is loaded with data_only=True,
\* given the sheet and saved.
create_sheet(fs, ds, filename, sheet_name, libok) ==
    LET path == realparts(filename)
        Fail(e) == [err |-> e, fs |-> fs, opened |-> {path}]
    IN  IF path \notin (DOMAIN fs) \cup ds
        THEN create_workbook(fs, ds, filename, sheet_name, libok)
        ELSE IF ~CanLoad(fs, path) THEN Fail("WorkbookError")
        ELSE IF ~_validate_sheet_name(sheet_name) THEN Fail("ValidationError")
        ELSE IF sheet_name \in fs[path].sheets THEN Fail("SheetExistsError")
        ELSE IF ~CanWrite(fs, ds, path) THEN Fail("PermissionError")
        ELSE [err |-> "",
              fs |-> PutFile(fs, path,
                             [LoadDataOnly(fs[path]) EXCEPT !.sheets = @ \cup {sheet_name}]),
              opened |-> {path}]

\* Bound on the number of calls in one behaviour of SpecData.
MaxDataCalls == 4

V_1 == <<"1">>
V_formula == <<"=", "A", "1">>
F_a == <<"a">>

DataBlocks ==
    { <<>>, << <<V_x, V_1>> >>, << <<V_x>>, <<V_100>> >>, << <<V_formula, V_1>> >>,
      << <<V_formula>> >>, << <<V_x, Blank>> >>, << <<V_1, V_x>>, <<V_North, V_100>> >> }

DataArgs ==
    [ filename : {F_rel}, sheet_name : {"S2", "Sheet1"}, data : DataBlocks,
      start_cell : {"A1", "B2", "Z0"}, end_cell : {"", "A1", "B1", "A2", "B2", "B3"} ]

\* The block lies on the part of the sheet that is modelled.
OnGrid(a) ==
    a.start_cell \in CellRefs /\ a.data # <<>> =>
        /\ RowOf(a.start_cell) + Len(a.data) - 1 <= NRows
        /\ ColOf(a.start_cell) + Len(a.data[1]) - 1 <= NCols

DataRet(err, value) ==
    IF err = "" THEN [Ret("value", {}, "success") EXCEPT !.ok = TRUE, !.value = value]
    ELSE [Ret("raise", {}, "error") EXCEPT !.reason.kind = err]

call_create_workbook(filename, libok) ==
    /\ ncalls < MaxDataCalls
    /\ \E r \in {create_workbook(files, dirs, filename, "Sheet1", libok)} :
        /\ files' = r.fs
        /\ ncalls' = ncalls + 1
        /\ last' = Call("create_workbook", filename, "none", <<>>, r.opened, TRUE,
                        DataRet(r.err, <<>>))
        /\ UNCHANGED <<env, db, work, dirs, config, rpc, cand, accepted, reads>>

call_create_sheet(filename, sheet_name, libok) ==
    /\ ncalls < MaxDataCalls
    /\ \E r \in {create_sheet(files, dirs, filename, sheet_name, libok)} :
        /\ files' = r.fs
        /\ ncalls' = ncalls + 1
        /\ last' = Call("create_sheet", filename, "none", <<>>, r.opened, TRUE,
                        DataRet(r.err, <<>>))
        /\ UNCHANGED <<env, db, work, dirs, config, rpc, cand, accepted, reads>>

call_write_data(a) ==
    /\ ncalls < MaxDataCalls
    /\ a.end_cell = ""
    /\ OnGrid(a)
    /\ \E r \in {write_data(files, dirs, a.filename, a.sheet_name, a.data, a.start_cell)} :
        /\ files' = r.fs
        /\ dirs' = r.ds
        /\ ncalls' = ncalls + 1
        /\ last' = [Call("write_data", a.filename, "none", <<>>, r.opened, TRUE,
                         DataRet(r.err, <<>>))
                      EXCEPT !.args = a]
        /\ UNCHANGED <<env, db, work, config, rpc, cand, accepted, reads>>

call_read_excel_range(a) ==
    /\ ncalls < MaxDataCalls
    /\ a.data = <<>>
    /\ \E r \in {read_excel_range(files, dirs, a.filename, a.sheet_name, a.start_cell,
                                    a.end_cell)} :
        /\ ncalls' = ncalls + 1
        /\ last' = [Call("read_excel_range", a.filename, "none", <<>>, {}, TRUE,
                         DataRet(r.err, r.data))
                      EXCEPT !.args = a]
        /\ UNCHANGED <<env, db, work, files, dirs, config, rpc, cand, accepted, reads>>

FrameArgs ==
    [ filename : {F_rel, F_book}, sheet_name : {"Sheet1", "S2"}, cell : {"A1", "B2", "Z0"},
      formula : { <<"=", "A", "1">>, <<"B", "1", "+", "1">>, <<"=", "S", "U", "M", "(", "A", "1">>,
                  <<"=", "I", "N", "D", "I", "R", "E", "C", "T", "(", "A", "1", ")">> } ]

call_apply_formula(a) ==
    /\ ncalls < MaxDataCalls
    /\ \E r \in {apply_formula(files, dirs, a.filename, a.sheet_name, a.cell, a.formula)} :
        /\ files' = r.fs
        /\ ncalls' = ncalls + 1
        /\ last' = [Call("apply_formula", a.filename, "none", <<>>, r.opened, TRUE,
                         DataRet(r.err, <<>>))
                      EXCEPT !.args = a]
        /\ UNCHANGED <<env, db, work, dirs, config, rpc, cand, accepted, reads>>

NextFrame ==
    \/ \E a \in FrameArgs : call_apply_formula(a)
    \/ \E f \in {F_rel, F_book}, n \in {"S2", "Sheet1_pivot"}, libok \in BOOLEAN :
           call_create_sheet(f, n, libok)

NextData ==
    \/ \E libok \in BOOLEAN : call_create_workbook(F_a, libok)
    \/ \E n \in {"S2", "S/2"}, libok \in BOOLEAN : call_create_sheet(F_rel, n, libok)
    \/ \E a \in DataArgs : call_write_data(a)
    \/ \E a \in DataArgs : call_read_excel_range(a)

valid_agg_funcs ==
    { <<"s", "u", "m">>, <<"a", "v", "e", "r", "a", "g", "e">>,
      <<"c", "o", "u", "n", "t">>, <<"m", "i", "n">>, <<"m", "a", "x">> }

\* create_pivot_table: [shape, err, fs].  shape "dict" is the returned error
\* mapping {"error", "message"}, shape "raise" a raised PivotError.  data_range
\* is the range string split at ':' into cell references.  read_excel_range
\* returns rows as lists, so first_row.keys() raises AttributeError whenever
\* the range holds data, and the statements after it (field validation, the
\* pivot sheet, the save) are not reached on any input.
create_pivot_table(fs, ds, filename, sheet_name, data_range, rows, values, columns, agg) ==
    LET path   == realparts(filename)
        parts  == Split(data_range, ":")
        IsRef(p) == Len(p) = 1 /\ p[1] \in CellRefs
        data   == read_excel_range(fs, ds, filename, sheet_name, parts[1][1], parts[2][1])
        Error(e) == [shape |-> "dict", err |-> e, fs |-> fs]
    IN  IF ~CanLoad(fs, path)
        THEN [shape |-> "raise", err |-> "PivotError", fs |-> fs]
        ELSE IF sheet_name \notin fs[path].sheets THEN Error("Sheet not found")
        ELSE IF ~Contains(data_range, ":")
        THEN Error("Data range must be in format 'A1:B2'")
        ELSE IF Len(parts) # 2 \/ ~IsRef(parts[1]) \/ (parts[2] # <<>> /\ ~IsRef(parts[2]))
        THEN Error("Invalid data range format")
        ELSE IF parts[2] = <<>>
        THEN Error("Invalid data range format: missing end coordinates")
        ELSE IF data.err # "" \/ data.data = <<>>
        THEN Error("Failed to read source data")
        ELSE IF Lower(agg) \notin valid_agg_funcs
        THEN Error("Invalid aggregation function")
        ELSE [shape |-> "raise", err |-> "PivotError: 'list' object has no attribute 'keys'",
              fs |-> fs]

RECURSIVE SumSeq(_)
SumSeq(s) == IF s = <<>> THEN 0 ELSE Head(s) + SumSeq(Tail(s))

\* _aggregate_values counting the rows of the group.
_aggregate_values_count_rows(data, field, agg_func) ==
    LET IsNum(record) == field \in DOMAIN record /\ IsNumber(record[field])
        kept   == SelectSeq(data, IsNum)
        values == [i \in 1..Len(kept) |-> NumberOf[kept[i][field][1]]]
        least  == CHOOSE i \in 1..Len(values) : \A j \in 1..Len(values) : values[i] <= values[j]
        most   == CHOOSE i \in 1..Len(values) : \A j \in 1..Len(values) : values[i] >= values[j]
    IN  IF values = <<>> THEN [num |-> 0, den |-> 1]
        ELSE IF agg_func = "sum" THEN [num |-> SumSeq(values), den |-> 1]
        ELSE IF agg_func = "average" THEN [num |-> SumSeq(values), den |-> Len(values)]
        ELSE IF agg_func = "count" THEN [num |-> Len(data), den |-> 1]
        ELSE IF agg_func = "min" THEN [num |-> values[least], den |-> 1]
        ELSE IF agg_func = "max" THEN [num |-> values[most], den |-> 1]
        ELSE [num |-> SumSeq(values), den |-> 1]

\* _aggregate_values(data, field, agg_func): the result as the fraction
\* num / den (den is 1 but for an average).  A record is a mapping from field
\* name to cell value.
_aggregate_values(data, field, agg_func) ==
    LET IsNum(record) == field \in DOMAIN record /\ IsNumber(record[field])
        kept   == SelectSeq(data, IsNum)
        values == [i \in 1..Len(kept) |-> NumberOf[kept[i][field][1]]]
        least  == CHOOSE i \in 1..Len(values) : \A j \in 1..Len(values) : values[i] <= values[j]
        most   == CHOOSE i \in 1..Len(values) : \A j \in 1..Len(values) : values[i] >= values[j]
    IN  IF values = <<>> THEN [num |-> 0, den |-> 1]
        ELSE IF agg_func = "sum" THEN [num |-> SumSeq(values), den |-> 1]
        ELSE IF agg_func = "average" THEN [num |-> SumSeq(values), den |-> Len(values)]
        ELSE IF agg_func = "count" THEN [num |-> Len(values), den |-> 1]
        ELSE IF agg_func = "min" THEN [num |-> values[least], den |-> 1]
        ELSE IF agg_func = "max" THEN [num |-> values[most], den |-> 1]
        ELSE [num |-> SumSeq(values), den |-> 1]

\* The records given to _aggregate_values: Sales a number, a text, a text of
\* digits, None, or missing.
MaxAggRows == 3

AggRecords ==
    { (V_Sales :> V_100), (V_Sales :> V_200), (V_Sales :> V_150), (V_Sales :> V_x),
      (V_Sales :> <<"1", "0", "0">>), (V_Sales :> Blank), (V_Region :> V_200) }

AggArgs ==
    [ data : UNION {[1..n -> AggRecords] : n \in 0..MaxAggRows}, field : {V_Sales},
      agg_func : {"sum", "average", "count", "min", "max", "unknown"} ]

\* _aggregate_values applied to the arguments drawn at the start.
call_aggregate_values ==
    /\ last.op = "input"
    /\ ncalls < MaxCalls
    /\ \E r \in {_aggregate_values(last.args.data, last.args.field, last.args.agg_func)} :
        /\ ncalls' = ncalls + 1
        /\ last' = [Call("_aggregate_values", <<>>, "none", <<>>, {}, TRUE,
                         [Ret("number", {}, "") EXCEPT !.value = <<r.num, r.den>>])
                      EXCEPT !.args = last.args]
        /\ UNCHANGED <<env, db, work, files, dirs, config, rpc, cand, accepted, reads>>

F_sales == <<"/", "docs", "/", "sales", ".xlsx">>

\* The arguments given to create_pivot_table.
R_full == <<"A1", ":", "B4">>
R_nocolon == <<"A1">>
R_bad == <<"A1", ":", "1A">>
R_noend == <<"A1", ":">>
V_Nope == <<"N", "o", "p", "e">>
Agg_sum == <<"s", "u", "m">>
Agg_median == <<"m", "e", "d", "i", "a", "n">>

PivotArgs ==
    [ filename : {F_sales}, sheet_name : {"Sheet1", "S2", "Nope"},
      data_range : {R_full, R_nocolon, R_bad, R_noend},
      rows : {<<V_Region>>, <<V_Nope>>, <<>>}, values : {<<V_Sales>>, <<V_Nope>>},
      columns : {<<>>, <<V_Nope>>}, agg_func : {Agg_sum, Agg_median} ]

\* A direct call of core create_pivot_table.
call_create_pivot_table(a) ==
    /\ ncalls < MaxCalls
    /\ \E r \in {create_pivot_table(files, dirs, a.filename, a.sheet_name, a.data_range,
                                     a.rows, a.values, a.columns, a.agg_func)} :
        /\ ncalls' = ncalls + 1
        /\ files' = r.fs
        /\ last' = [Call("create_pivot_table", a.filename, "none", <<>>,
                         {realparts(a.filename)}, TRUE,
                         IF r.shape = "raise" THEN Ret("raise", {}, "")
                         ELSE [Ret("dict", {"error", "message"}, "")
                                 EXCEPT !.reason = [NoReason EXCEPT !.kind = r.err]])
                      EXCEPT !.args = a]
        /\ UNCHANGED <<env, db, work, dirs, config, rpc, cand, accepted, reads>>

\* tools/graphics_tools.py create_pivot_table: agg_func: str = "mean".
agg_func_default == <<"m", "e", "a", "n">>

PivotToolArgs ==
    [ filename : {F_sales, <<"/", "docs", "/", "sales">>, F_out},
      sheet_name : {"Sheet1", "Nope"}, data_range : {R_full, R_nocolon},
      rows : {<<V_Region>>, <<>>}, values : {<<V_Sales>>},
      agg_func : {Omitted, Given(Agg_sum), Given(Agg_median)} ]

\* tools/graphics_tools.py create_pivot_table: the gate, the extension, the
\* core call; a raised ValidationError or PivotError comes back as {"error"}.
tool_create_pivot_table(a) ==
    /\ ncalls < MaxCalls
    /\ \E g \in {_validate_file(env, files, dirs, a.filename)} :
       \E r \in {create_pivot_table(g.fs, dirs, ensure_xlsx_extension(a.filename),
                                    a.sheet_name, a.data_range, a.rows, a.values, <<>>,
                                    IF a.agg_func.given THEN a.agg_func.v
                                    ELSE agg_func_default)} :
        /\ ncalls' = ncalls + 1
        /\ IF g.gate # "ok"
           THEN /\ files' = g.fs
                /\ last' = [Call("tool_create_pivot_table", a.filename, g.gate, g.checked,
                                 {}, FALSE, ErrorDict({"path"}))
                              EXCEPT !.args = a]
           ELSE /\ files' = r.fs
                /\ last' = [Call("tool_create_pivot_table", a.filename, g.gate, g.checked,
                                 {realparts(ensure_xlsx_extension(a.filename))}, TRUE,
                                 [Ret("dict", IF r.shape = "raise" THEN {"error"}
                                              ELSE {"error", "message"}, "")
                                    EXCEPT !.reason = [NoReason EXCEPT !.kind = r.err]])
                              EXCEPT !.args = a]
        /\ UNCHANGED <<env, db, work, dirs, config, rpc, cand, accepted, reads>>

\* validate_formula_secure applied to the formula drawn at the start.
call_validate_formula_secure ==
    /\ last.op = "input"
    /\ ncalls < MaxCalls
    /\ \E v \in {validate_formula_secure(last.formula)} :
        /\ ncalls' = ncalls + 1
        /\ last' = [Call("validate_formula_secure", <<>>, "none", <<>>, {}, TRUE,
                         [Ret("tuple", {}, v.msg) EXCEPT !.ok = v.ok])
                      EXCEPT !.formula = last.formula]
        /\ UNCHANGED <<env, db, work, files, dirs, config, rpc, cand, accepted, reads>>

\* validation_utils.validate_formula_in_cell_operation: the result mapping.
\* None of its results carries a "status" key.
validate_formula_in_cell_operation(fs, ds, filepath, sheet_name, cell, formula) ==
    LET path == realparts(filepath)
    IN  IF ~validate_cell_reference(cell) THEN Ret("dict", {"error"}, "")
        ELSE IF ~CanLoad(fs, path) THEN Ret("dict", {"error"}, "")
        ELSE IF sheet_name \notin fs[path].sheets THEN Ret("dict", {"error"}, "")
        ELSE IF ~validate_formula(formula).ok THEN Ret("dict", {"error"}, "")
        ELSE Ret("dict", {"message", "valid", "matches", "cell"}, "")

\* tools/formulas_excel_tools.py apply_formula_excel, behind validate_file_access
apply_formula_excel(filename, sheet_name, cell, formula) ==
    /\ ncalls < MaxCalls
    /\ \E g \in {_validate_file(env, files, dirs, filename)} :
       \E fn \in {ensure_xlsx_extension(filename)} :
       \E v \in {validate_formula_in_cell_operation(g.fs, dirs, fn, sheet_name, cell,
                                                 formula)} :
       \E r \in {apply_formula(g.fs, dirs, fn, sheet_name, cell, formula)} :
        /\ ncalls' = ncalls + 1
        /\ IF g.gate # "ok"
           THEN /\ files' = g.fs
                /\ last' = [Call("apply_formula_excel", filename, g.gate, g.checked, {},
                                 FALSE, ErrorDict({"path"}))
                              EXCEPT !.formula = formula]
           ELSE IF v.status = "error"
           THEN /\ files' = g.fs
                /\ last' = [Call("apply_formula_excel", filename, g.gate, g.checked,
                                 {realparts(fn)}, TRUE, v)
                              EXCEPT !.formula = formula]
           ELSE /\ files' = r.fs
                /\ last' = [Call("apply_formula_excel", filename, g.gate, g.checked,
                                 {realparts(fn)} \cup r.opened, TRUE,
                                 IF r.err = "" THEN SuccessDict({"cell", "formula"})
                                 ELSE ErrorDict({}))
                              EXCEPT !.formula = formula]
        /\ UNCHANGED <<env, db, work, dirs, config, rpc, cand, accepted, reads>>

(***************************************************************************)
(* The server: any call, in any order.                                     *)
\* The table at the start holds one row; its first column is its key.
K_1 == <<"k", "1">>
K_2 == <<"k", "2">>
K_3 == <<"k", "3">>
K_padded == <<" ", "k", "1", " ">>
K_bad == <<"b", "a", "d">>

InitTable == {K_1}

\* The worker threads of asyncio.to_thread; none has been given a call.
Threads == {1, 2}

NoJob == [kind |-> "none", filename |-> <<>>, sheet_name |-> "", data |-> <<>>,
          start_cell |-> ""]

Idle == [pc |-> "idle", job |-> NoJob, loaded |-> EmptyFile, wb |-> EmptyFile,
         status |-> ""]

NoWork == [th |-> [t \in Threads |-> Idle], saved |-> <<>>]

(***************************************************************************)
NoOv == Ov(Omitted, Omitted, Omitted)

\* ConfigurationManager() at import: the first load, from the environment.
Init ==
    /\ env \in EnvChoices
    /\ files = InitFiles
    /\ config = _load_configuration(env, InitFiles, InitDirs, NoOv, NoOv).cfg
    /\ dirs = _load_configuration(env, InitFiles, InitDirs, NoOv, NoOv).ds
    /\ accepted = {config}
    /\ last = [op |-> "none", filename |-> <<>>, gate |-> "none", checked |-> <<>>,
               opened |-> {}, invoked |-> FALSE, ret |-> Ret("none", {}, ""),
               before |-> InitFiles, dirsBefore |-> dirs, cfgBefore |-> config,
               ov |-> <<>>, formula |-> <<>>, args |-> <<>>, events |-> <<>>]
    /\ ncalls = 0
    /\ rpc = "idle"
    /\ cand = config
    /\ reads = <<>>
    /\ db = InitTable
    /\ work = NoWork

\* The state in which a pure function is applied to the input `formula`.
InitWith(formula, args) ==
    /\ env = D_docs
    /\ files = InitFiles
    /\ config = _load_configuration(env, InitFiles, InitDirs, NoOv, NoOv).cfg
    /\ dirs = _load_configuration(env, InitFiles, InitDirs, NoOv, NoOv).ds
    /\ accepted = {config}
    /\ last = [op |-> "input", filename |-> <<>>, gate |-> "none", checked |-> <<>>,
               opened |-> {}, invoked |-> FALSE, ret |-> Ret("none", {}, ""),
               before |-> InitFiles, dirsBefore |-> dirs, cfgBefore |-> config,
               ov |-> <<>>, formula |-> formula, args |-> args, events |-> <<>>]
    /\ ncalls = 0
    /\ rpc = "idle"
    /\ cand = config
    /\ reads = <<>>
    /\ db = InitTable
    /\ work = NoWork

FormulaFiles == {F_book, F_booknoext, F_mal}

Next ==
    \/ \E f \in Filenames : call_resolve_safe_path(f)
    \/ \E f \in Filenames : call_is_path_in_allowed_directories(f)
    \/ \E f \in Filenames : call_validate_file_path(f)
    \/ \E f \in ToolFilenames, libok \in BOOLEAN : create_excel_workbook(f, libok)
    \/ \E f \in ToolFilenames : write_data_to_excel(f, "Sheet1", "A1", V_x)
    \/ \E f \in ToolFilenames : delete_worksheet(f, "S2")
    \/ \E f \in FormulaFiles, fm \in Formulas :
           apply_formula_secure(f, "Sheet1", "B1", fm)
    \/ \E f \in FormulaFiles, fm \in Formulas :
           apply_formula_excel(f, "Sheet1", "B1", fm)
    \/ \E ov \in Overrides : reload_configuration(ov)

Spec == Init /\ [][Next]_vars

\* The tools alone.
NextTools ==
    \/ \E f \in ToolFilenames, libok \in BOOLEAN : create_excel_workbook(f, libok)
    \/ \E f \in ToolFilenames : write_data_to_excel(f, "Sheet1", "A1", V_x)
    \/ \E f \in ToolFilenames : delete_worksheet(f, "S2")
    \/ \E f \in FormulaFiles, fm \in Formulas :
           apply_formula_excel(f, "Sheet1", "B1", fm)

SpecTools == Init /\ [][NextTools]_vars

\* The configuration store alone, with the two path checks that consult it.
NextConfig ==
    \/ \E ov \in Overrides : reload_configuration(ov)
    \/ \E f \in Filenames : call_validate_file_path(f)
    \/ \E f \in Filenames : call_is_path_in_allowed_directories(f)

SpecConfig == Init /\ [][NextConfig]_vars

\* The path functions of file_utils alone.
NextPaths ==
    \/ \E f \in Filenames : call_resolve_safe_path(f)
    \/ \E f \in Filenames : call_is_path_in_allowed_directories(f)
    \/ \E f \in CheckFilenames : call_check_file_writeable(f)

SpecPaths == Init /\ [][NextPaths]_vars

\* core create_pivot_table on the workbooks present at the start.
NextPivot == \E a \in PivotArgs : call_create_pivot_table(a)

SpecPivot == InitWith(<<>>, <<>>) /\ [][NextPivot]_vars

NextPivotTool == \E a \in PivotToolArgs : tool_create_pivot_table(a)

SpecPivotTool == Init /\ [][NextPivotTool]_vars

(***************************************************************************)
(* core/db_conection.py and tools/db_tools.py: inserting rows.             *)
(***************************************************************************)
\* The default batch_size of insert_data_to_db.
batch_size_default == 1000

\* clean_data(rows, columns): a row of another length raises ValueError;
\* strings are stripped.
clean_data(rows, columns) ==
    IF \E i \in 1..Len(rows) : Len(rows[i]) # Len(columns)
    THEN [err |-> "ValueError", rows |-> <<>>]
    ELSE [err |-> "",
          rows |-> [i \in 1..Len(rows) |-> [j \in 1..Len(rows[i]) |-> Strip(rows[i][j])]]]

\* A row the table rejects (psycopg2.Error): the statement holding it fails.
Rejected(row) == row[1] = K_bad

\* The batches of insert_data_to_db from the first of `rows` on: each batch is
\* one INSERT ... ON CONFLICT DO NOTHING and one commit; a failing batch is
\* rolled back and ends the loop with DatabaseError.
Event(e, rows) == [e |-> e, rows |-> rows]

RECURSIVE insert_batches(_, _, _, _, _)
insert_batches(table, rows, batch_size, total_inserted, log) ==
    IF rows = <<>>
    THEN [err |-> "", table |-> table, total_inserted |-> total_inserted, log |-> log]
    ELSE LET n     == IF batch_size < Len(rows) THEN batch_size ELSE Len(rows)
             batch == SubSeq(rows, 1, n)
             new   == {batch[i][1] : i \in 1..n} \ table
         IN  IF \E i \in 1..n : Rejected(batch[i])
             THEN [err |-> "DatabaseError", table |-> table, total_inserted |-> total_inserted,
                   log |-> log \o <<Event("execute", batch), Event("rollback", <<>>)>>]
             ELSE insert_batches(table \cup new, SubSeq(rows, n + 1, Len(rows)), batch_size,
                                 total_inserted + Cardinality(new),
                                 log \o <<Event("execute", batch), Event("commit", <<>>)>>)

\* psycopg2.connect succeeds on the server that is up.
CanConnect(conn_str) == conn_str = C_pg

\* insert_data_to_db committing once, after the last batch.
insert_data_to_db_single_commit(cfg, table, columns, rows, connection_string, batch_size) ==
    LET conn_str == IF connection_string # None THEN connection_string
                    ELSE get_postgres_connection_string(cfg)
        r == insert_batches(table, rows, batch_size, 0, <<Event("connect", <<>>)>>)
        Error(m) == [status |-> "error", message |-> m, count |-> <<>>, table |-> table,
                     events |-> <<>>]
    IN  IF \E i \in 1..Len(rows) : Len(rows[i]) # Len(columns)
        THEN Error("row length")
        ELSE IF conn_str = None THEN Error("unexpected")
        ELSE IF ~CanConnect(conn_str) THEN Error("failed to connect")
        ELSE IF r.err # ""
        THEN [status |-> "error", message |-> "batch insert failed", count |-> <<>>,
              table |-> table, events |-> Append(r.log, Event("close", <<>>))]
        ELSE [status |-> "success", message |-> "inserted", count |-> <<r.total_inserted>>,
              table |-> r.table, events |-> Append(r.log, Event("close", <<>>))]

\* insert_data_to_db(table, columns, rows, connection_string, batch_size):
\* the returned dict (count: the number named in the message, if any), the
\* table afterwards and what was done on the connection, in order.
insert_data_to_db(cfg, table, columns, rows, connection_string, batch_size) ==
    LET conn_str == IF connection_string # None THEN connection_string
                    ELSE get_postgres_connection_string(cfg)
        r == insert_batches(table, rows, batch_size, 0, <<Event("connect", <<>>)>>)
        Error(m) == [status |-> "error", message |-> m, count |-> <<>>, table |-> table,
                     events |-> <<>>]
    IN  IF \E i \in 1..Len(rows) : Len(rows[i]) # Len(columns)
        THEN Error("row length")
        ELSE IF conn_str = None THEN Error("unexpected")
        ELSE IF ~CanConnect(conn_str) THEN Error("failed to connect")
        ELSE IF r.err # ""
        THEN [status |-> "error", message |-> "batch insert failed", count |-> <<>>,
              table |-> r.table, events |-> Append(r.log, Event("close", <<>>))]
        ELSE [status |-> "success", message |-> "inserted", count |-> <<r.total_inserted>>,
              table |-> r.table, events |-> Append(r.log, Event("close", <<>>))]

\* The insert_calculated_data_to_db tool: rows_inserted (if the key is there)
\* and the table afterwards.
insert_calculated_data_to_db(cfg, table, name, columns, rows, connection_string) ==
    LET c == clean_data(rows, columns)
        r == insert_data_to_db(cfg, table, columns, c.rows, connection_string,
                               batch_size_default)
        Error(m, t) == [status |-> "error", message |-> m, rows_inserted |-> <<>>, table |-> t]
    IN  IF connection_string = None /\ get_postgres_connection_string(cfg) = None
        THEN Error("not configured", table)
        ELSE IF name = <<>> THEN Error("table name", table)
        ELSE IF columns = <<>> THEN Error("columns", table)
        ELSE IF rows = <<>> THEN Error("no rows", table)
        ELSE IF c.err # "" THEN Error("data validation failed", table)
        ELSE IF r.status = "error" THEN Error("database insert failed", r.table)
        ELSE [status |-> "success", message |-> r.message, rows_inserted |-> <<Len(c.rows)>>,
              table |-> r.table]

\* Bound on the number of rows given to one insert.
MaxDbRows == 2

DbRows == {<<K_1>>, <<K_2>>, <<K_padded>>, <<K_bad>>, <<K_1, K_2>>}

DbArgs ==
    [ name : {<<"t">>, <<>>}, columns : {<<"id">>, <<>>},
      rows : UNION {[1..n -> DbRows] : n \in 0..MaxDbRows},
      connection_string : {C_pg, C_pgs, None}, batch_size : {1, 2, batch_size_default} ]

\* Bound on the number of rows given to insert_data_to_db alone.
MaxBatchRows == 3

BatchArgs ==
    [ name : {<<"t">>}, columns : {<<"id">>},
      rows : UNION {[1..n -> {<<K_1>>, <<K_2>>, <<K_3>>, <<K_bad>>, <<K_1, K_2>>}] :
                      n \in 0..MaxBatchRows},
      connection_string : {C_pg, C_pgs, None}, batch_size : {1, 2, batch_size_default} ]

call_insert_data_to_db(a) ==
    /\ ncalls < MaxCalls
    /\ a.name # <<>> /\ a.columns # <<>>
    /\ \E r \in {insert_data_to_db(config, db, a.columns, a.rows, a.connection_string,
                                     a.batch_size)} :
        /\ db' = r.table
        /\ ncalls' = ncalls + 1
        /\ last' = [Call("insert_data_to_db", <<>>, "none", <<>>, {}, TRUE,
                         [Ret("dict", {"status", "message"}, r.status)
                            EXCEPT !.value = r.count, !.reason.kind = r.message])
                      EXCEPT !.args = a, !.events = r.events]
        /\ UNCHANGED <<env, work, files, dirs, config, rpc, cand, accepted, reads>>

call_insert_calculated_data_to_db(a) ==
    /\ ncalls < MaxCalls
    /\ a.batch_size = batch_size_default
    /\ \E r \in {insert_calculated_data_to_db(config, db, a.name, a.columns, a.rows,
                                                a.connection_string)} :
        /\ db' = r.table
        /\ ncalls' = ncalls + 1
        /\ last' = [Call("insert_calculated_data_to_db", <<>>, "none", <<>>, {}, TRUE,
                         [Ret("dict",
                              IF r.status = "success"
                              THEN {"status", "message", "rows_inserted", "table"}
                              ELSE {"status", "message", "table"}, r.status)
                            EXCEPT !.value = r.rows_inserted, !.reason.kind = r.message])
                      EXCEPT !.args = a]
        /\ UNCHANGED <<env, work, files, dirs, config, rpc, cand, accepted, reads>>

NextDb ==
    \/ \E a \in DbArgs : call_insert_data_to_db(a)
    \/ \E a \in DbArgs : call_insert_calculated_data_to_db(a)

SpecDb == InitWith(<<>>, <<>>) /\ [][NextDb]_vars

\* insert_data_to_db on each argument list of BatchArgs.
InitBatch == \E a \in BatchArgs : InitWith(<<>>, a)

NextBatch == last.op = "input" /\ call_insert_data_to_db(last.args)

SpecBatch == InitBatch /\ [][NextBatch]_vars

SpecData == InitWith(<<>>, <<>>) /\ [][NextData]_vars

SpecFrame == InitWith(<<>>, <<>>) /\ [][NextFrame]_vars

(***************************************************************************)
(* core/db_conection.py and tools/db_tools.py: from the database to a      *)
(* workbook.                                                               *)
(***************************************************************************)
\* " ".join(s.split()): runs of white space become one space, none at the ends.
RECURSIVE JoinWords(_)
JoinWords(s) ==
    IF s = <<>> THEN <<>>
    ELSE IF IsSpace(Head(s))
    THEN IF Tail(s) = <<>> \/ IsSpace(Head(Tail(s))) THEN JoinWords(Tail(s))
         ELSE <<" ">> \o JoinWords(Tail(s))
    ELSE <<Head(s)>> \o JoinWords(Tail(s))

NormalizeQuery(query) == JoinWords(LStrip(Lower(query)))

dangerous_commands ==
    { <<"d", "r", "o", "p">>,
      <<"d", "e", "l", "e", "t", "e">>,
      <<"i", "n", "s", "e", "r", "t">>,
      <<"u", "p", "d", "a", "t", "e">>,
      <<"a", "l", "t", "e", "r">>,
      <<"t", "r", "u", "n", "c", "a", "t", "e">>,
      <<"c", "r", "e", "a", "t", "e">>,
      <<"m", "o", "d", "i", "f", "y">>,
      <<"g", "r", "a", "n", "t">>,
      <<"r", "e", "v", "o", "k", "e">>,
      <<"e", "x", "e", "c">>,
      <<"e", "x", "e", "c", "u", "t", "e">>,
      <<"s", "h", "u", "t", "d", "o", "w", "n">>,
      <<"-", "-">>,
      <<"/", "*">>,
      <<"*", "/">>,
      <<"x", "p", "_">>,
      <<"s", "p", "_">> }

\* re.match(r'^select\s+[\w\s,*]+\s+from\s+[\w"]+', s)
SelectFromShape(s) ==
    \E c \in 9..Len(s) :
        /\ c + 6 <= Len(s)
        /\ SubSeq(s, 1, 6) = <<"s", "e", "l", "e", "c", "t">>
        /\ IsSpace(s[7]) /\ IsSpace(s[c])
        /\ \A i \in 7..c : IsWordChar(s[i]) \/ IsSpace(s[i]) \/ s[i] \in {",", "*"}
        /\ SubSeq(s, c + 1, c + 4) = <<"f", "r", "o", "m">>
        /\ \E d \in (c + 5)..(Len(s) - 1) :
               /\ \A i \in (c + 5)..d : IsSpace(s[i])
               /\ (IsWordChar(s[d + 1]) \/ s[d + 1] = "\"")

validate_sql_query(query) ==
    LET normalized == NormalizeQuery(query)
    IN  IF Contains(normalized, ";") THEN FALSE
        ELSE IF \E cmd \in dangerous_commands : HasSub(normalized, cmd) THEN FALSE
        ELSE IF ~StartsWith(normalized, <<"s", "e", "l", "e", "c", "t">> \o <<" ">>) THEN FALSE
        ELSE SelectFromShape(normalized)

\* The server holds the one table t; a statement that ends in another name
\* fails in cursor.execute (psycopg2.Error).
Executes(query) == EndsWith(NormalizeQuery(query), <<" ", "f", "r", "o", "m", " ", "t">>)

\* The rows of the table in the order the server returns them.
TableRows(table) ==
    { rows \in [1..Cardinality(table) -> {<<k>> : k \in table}] :
        \A i, j \in 1..Cardinality(table) : i # j => rows[i] # rows[j] }

\* fetch_data_from_db(connection_string, query): the returned dict and what
\* was done on the connection; rows is the answer of the server.
fetch_data_from_db(cfg, rows, query, connection_string) ==
    LET conn_str == IF connection_string # None THEN connection_string
                    ELSE get_postgres_connection_string(cfg)
        Error(m, ev) == [status |-> "error", message |-> m, columns |-> <<>>, rows |-> <<>>,
                         events |-> ev]
    IN  IF query = <<>> THEN Error("no query", <<>>)
        ELSE IF conn_str = None \/ ~CanConnect(conn_str) THEN Error("failed to connect", <<>>)
        ELSE IF ~Executes(query)
        THEN Error("query execution failed",
                   <<Event("connect", <<>>), Event("query", <<>>), Event("rollback", <<>>),
                     Event("close", <<>>)>>)
        ELSE [status |-> "success", message |-> "", columns |-> <<<<"i", "d">>>>, rows |-> rows,
              events |-> <<Event("connect", <<>>), Event("query", <<>>),
                           Event("close", <<>>)>>]

\* insert_data_to_excel(filename, sheet_name, columns, rows): [status, fs, opened].
\* The headers go to row 1 and the rows below them.
insert_data_to_excel(fs, ds, filename, sheet_name, columns, rows) ==
    LET path == realparts(filename)
        Error == [status |-> "error", fs |-> fs, opened |-> {path}]
    IN  IF ~CanLoad(fs, path) THEN Error
        ELSE IF sheet_name \notin fs[path].sheets THEN Error
        ELSE IF ~CanWrite(fs, ds, path) THEN Error
        ELSE [status |-> "success",
              fs |-> PutFile(fs, path,
                             _write_data_to_worksheet(fs[path], sheet_name,
                                                      <<columns>> \o rows, 1, 1)),
              opened |-> {path}]

\* fetch_and_insert_db_to_excel with the query validated after the fetch.
fetch_and_insert_db_to_excel_fetch_first(cfg, fs, ds, rows, query, filename, sheet_name, conn) ==
    LET name == ensure_xlsx_extension(filename)
        f    == fetch_data_from_db(cfg, rows, query, conn)
        c    == clean_data(f.rows, f.columns)
        x    == insert_data_to_excel(fs, ds, resolve(name), sheet_name, f.columns, c.rows)
        Error(m, ev) == [status |-> "error", message |-> m, fs |-> fs, opened |-> {},
                         events |-> ev]
    IN  IF conn = None /\ get_postgres_connection_string(cfg) = None
        THEN Error("not configured", <<>>)
        ELSE IF ~validate_file_path(cfg, name) THEN Error("file path validation failed", <<>>)
        ELSE IF f.status = "error" THEN Error("database query failed", f.events)
        ELSE IF ~validate_sql_query(query) THEN Error("unsafe query", f.events)
        ELSE IF c.err # "" THEN Error("unexpected", f.events)
        ELSE IF x.status = "error"
        THEN [status |-> "error", message |-> "excel operation failed", fs |-> x.fs,
              opened |-> x.opened, events |-> f.events]
        ELSE [status |-> "success", message |-> "inserted", fs |-> x.fs,
              opened |-> x.opened, events |-> f.events]

\* The fetch_and_insert_db_to_excel tool: [status, message, fs, opened, events].
fetch_and_insert_db_to_excel(cfg, fs, ds, rows, query, filename, sheet_name, conn) ==
    LET name == ensure_xlsx_extension(filename)
        f    == fetch_data_from_db(cfg, rows, query, conn)
        c    == clean_data(f.rows, f.columns)
        x    == insert_data_to_excel(fs, ds, resolve(name), sheet_name, f.columns, c.rows)
        Error(m, ev) == [status |-> "error", message |-> m, fs |-> fs, opened |-> {},
                         events |-> ev]
    IN  IF conn = None /\ get_postgres_connection_string(cfg) = None
        THEN Error("not configured", <<>>)
        ELSE IF ~validate_file_path(cfg, name) THEN Error("file path validation failed", <<>>)
        ELSE IF ~validate_sql_query(query) THEN Error("unsafe query", <<>>)
        ELSE IF f.status = "error" THEN Error("database query failed", f.events)
        ELSE IF c.err # "" THEN Error("unexpected", f.events)
        ELSE IF x.status = "error"
        THEN [status |-> "error", message |-> "excel operation failed", fs |-> x.fs,
              opened |-> x.opened, events |-> f.events]
        ELSE [status |-> "success", message |-> "inserted", fs |-> x.fs,
              opened |-> x.opened, events |-> f.events]

Q_select == <<"s", "e", "l", "e", "c", "t", " ", "i", "d", " ", "f", "r", "o", "m", " ", "t">>
Q_star == <<"s", "e", "l", "e", "c", "t", " ", "*", " ", "f", "r", "o", "m", " ", "t">>
Q_upper == <<" ", " ", "S", "E", "L", "E", "C", "T", " ", "i", "d", " ", " ", "F", "R", "O", "M", " ", "t">>
Q_drop == <<"d", "r", "o", "p", " ", "t", "a", "b", "l", "e", " ", "t">>
Q_two == <<"s", "e", "l", "e", "c", "t", " ", "i", "d", " ", "f", "r", "o", "m", " ", "t", ";", " ", "s", "e", "l", "e", "c", "t", " ", "1">>
Q_created == <<"s", "e", "l", "e", "c", "t", " ", "c", "r", "e", "a", "t", "e", "d", " ", "f", "r", "o", "m", " ", "t">>
Q_other == <<"s", "e", "l", "e", "c", "t", " ", "i", "d", " ", "f", "r", "o", "m", " ", "u">>
Q_nofrom == <<"s", "e", "l", "e", "c", "t", " ", "i", "d">>

Queries == {Q_select, Q_star, Q_upper, Q_drop, Q_two, Q_created, Q_other, Q_nofrom, <<>>}

FetchArgs ==
    [ query : Queries, filename : {F_book, F_booknoext, F_out, F_new, F_in, F_locked},
      sheet_name : {"Sheet1", "Sheet1_pivot"}, connection_string : {C_pg, C_pgs, None} ]

call_fetch_and_insert_db_to_excel(a) ==
    /\ ncalls < MaxCalls
    /\ \E rows \in TableRows(db) :
       \E r \in {fetch_and_insert_db_to_excel(config, files, dirs, rows, a.query, a.filename,
                                              a.sheet_name, a.connection_string)} :
        /\ files' = r.fs
        /\ ncalls' = ncalls + 1
        /\ last' = [Call("fetch_and_insert_db_to_excel", a.filename, "none", <<>>, r.opened,
                         TRUE,
                         [Ret("dict", {"status", "message"}, r.status)
                            EXCEPT !.reason.kind = r.message])
                      EXCEPT !.args = a, !.events = r.events]
        /\ UNCHANGED <<env, db, work, dirs, config, rpc, cand, accepted, reads>>

\* fetch_and_insert_db_to_excel on each argument list of FetchArgs.
InitFetch == \E a \in FetchArgs : InitWith(<<>>, a)

NextFetch == last.op = "input" /\ call_fetch_and_insert_db_to_excel(last.args)

SpecFetch == InitFetch /\ [][NextFetch]_vars

(***************************************************************************)
(* The body of create_pivot_table on records (mappings from header to cell  *)
(* value), as pivot.py lines 59-165 run once first_row is a mapping: field  *)
(* validation, the header record, the row combinations, filter, aggregate.  *)
(***************************************************************************)
\* str(value) of a cell value.  An empty cell is None.
DigitsOf ==
    ("1" :> <<"1">>) @@ ("100" :> <<"1", "0", "0">>) @@ ("150" :> <<"1", "5", "0">>)
    @@ ("200" :> <<"2", "0", "0">>)

str(v) ==
    IF v = Blank THEN <<"N", "o", "n", "e">>
    ELSE IF IsNumber(v) THEN DigitsOf[v[1]] ELSE v

\* The characters of the key values in code point order, and sorted(set(...)).
CodePoints == <<" ", "0", "1", "2", "5", "N", "R", "S", "a", "e", "g", "h", "i", "l",
                "n", "o", "p", "r", "s", "t", "u", "x">>

CodeOf(c) == CHOOSE i \in 1..Len(CodePoints) : CodePoints[i] = c

RECURSIVE StrLess(_, _)
StrLess(a, b) ==
    IF b = <<>> THEN FALSE
    ELSE IF a = <<>> THEN TRUE
    ELSE IF a[1] # b[1] THEN CodeOf(a[1]) < CodeOf(b[1])
    ELSE StrLess(Tail(a), Tail(b))

RECURSIVE sorted(_)
sorted(S) ==
    IF S = {} THEN <<>>
    ELSE LET least == CHOOSE x \in S : \A y \in S \ {x} : StrLess(x, y)
         IN  <<least>> \o sorted(S \ {least})

\* clean_field_name: strip, then drop one aggregate suffix.
AggSuffixes ==
    { <<" ", "(", "s", "u", "m", ")">>, <<" ", "(", "m", "i", "n", ")">>,
      <<" ", "(", "m", "a", "x", ")">>, <<" ", "(", "c", "o", "u", "n", "t", ")">>,
      <<" ", "(", "a", "v", "e", "r", "a", "g", "e", ")">> }

clean_field_name(field) ==
    LET f == LStrip(RStrip(field))
        hit == {x \in AggSuffixes : EndsWith(Lower(f), x)}
    IN  IF hit = {} THEN f
        ELSE SubSeq(f, 1, Len(f) - Len(CHOOSE x \in hit : TRUE))

\* _get_combinations over the row fields in their order: the first field
\* varies slowest.  A combination maps each field to one of its values.
RECURSIVE _get_combinations(_, _)
_get_combinations(fields, field_values) ==
    IF fields = <<>> THEN << <<>> >>
    ELSE LET prev == _get_combinations(SubSeq(fields, 1, Len(fields) - 1), field_values)
             f    == fields[Len(fields)]
             vals == field_values[f]
         IN  [k \in 1..(Len(prev) * Len(vals)) |->
                (f :> vals[((k - 1) % Len(vals)) + 1])
                @@ prev[((k - 1) \div Len(vals)) + 1]]

\* _filter_data: the records whose cell equals the filter value in every
\* filtered field; record.get(field) is None for a missing field.
_filter_data(data, row_filters, col_filters) ==
    LET Get(record, f) == IF f \in DOMAIN record THEN record[f] ELSE Blank
        Matches(record) ==
            /\ \A f \in DOMAIN row_filters : Get(record, f) = row_filters[f]
            /\ \A f \in DOMAIN col_filters : Get(record, f) = col_filters[f]
    IN  SelectSeq(data, Matches)

\* The aggregate name as _aggregate_values compares it: letter for letter.
AggName(agg) ==
    IF agg = <<"s", "u", "m">> THEN "sum"
    ELSE IF agg = <<"a", "v", "e", "r", "a", "g", "e">> THEN "average"
    ELSE IF agg = <<"c", "o", "u", "n", "t">> THEN "count"
    ELSE IF agg = <<"m", "i", "n">> THEN "min"
    ELSE IF agg = <<"m", "a", "x">> THEN "max"
    ELSE "unknown"

\* [err, rows]: the data rows written below the header of the pivot sheet,
\* each the key values of one combination and one aggregate per value field.
pivot_data_rows(records, rows, values, agg_func) ==
    LET first_row == records[1]
        available == {Lower(clean_field_name(h)) : h \in DOMAIN first_row}
        Known(f)  == Lower(clean_field_name(f)) \in available
        Named(h)  == \E i \in 1..Len(rows \o values) :
                        Lower(clean_field_name(h)) = Lower(clean_field_name((rows \o values)[i]))
        data      == IF records # <<>> /\ \A h \in DOMAIN first_row : Named(h)
                     THEN Tail(records) ELSE records
        cleaned_rows   == [i \in 1..Len(rows) |-> clean_field_name(rows[i])]
        cleaned_values == [i \in 1..Len(values) |-> clean_field_name(values[i])]
        field_values == [f \in {cleaned_rows[i] : i \in 1..Len(cleaned_rows)} |->
                           sorted({IF f \in DOMAIN data[i] THEN str(data[i][f]) ELSE <<>> :
                                   i \in 1..Len(data)})]
        combos    == _get_combinations(cleaned_rows, field_values)
    IN  IF Lower(agg_func) \notin valid_agg_funcs
        THEN [err |-> "Invalid aggregation function", rows |-> <<>>]
        ELSE IF records # <<>> /\ \E i \in 1..Len(rows) : ~Known(rows[i])
        THEN [err |-> "Invalid row field", rows |-> <<>>]
        ELSE IF records # <<>> /\ \E i \in 1..Len(values) : ~Known(values[i])
        THEN [err |-> "Invalid value field", rows |-> <<>>]
        ELSE [err |-> "",
              rows |-> [k \in 1..Len(combos) |->
                          [key  |-> [i \in 1..Len(cleaned_rows) |-> combos[k][cleaned_rows[i]]],
                           vals |-> [j \in 1..Len(cleaned_values) |->
                                       _aggregate_values(_filter_data(data, combos[k], <<>>),
                                                         cleaned_values[j],
                                                         AggName(agg_func))]]]]

\* The records given to the body: a header record first or not, then up to
\* MaxPivotRows records whose Region is a text, a number or empty.
MaxPivotRows == 2

HeaderRecord == (V_Region :> V_Region) @@ (V_Sales :> V_Sales)

PivotRecords ==
    { (V_Region :> k) @@ (V_Sales :> v) :
        k \in {V_North, V_South, V_200, Blank}, v \in {V_100, V_x} }

Agg_AVERAGE == <<"A", "V", "E", "R", "A", "G", "E">>
Agg_average == <<"a", "v", "e", "r", "a", "g", "e">>
Agg_Count == <<"C", "o", "u", "n", "t">>
Agg_count == <<"c", "o", "u", "n", "t">>
Agg_MAX == <<"M", "A", "X">>
Agg_max == <<"m", "a", "x">>

PivotBodyArgs ==
    [ records : {h \o d : h \in {<<>>, <<HeaderRecord>>},
                          d \in UNION {[1..n -> PivotRecords] : n \in 0..MaxPivotRows}},
      rows : {<<V_Region>>, <<>>, <<V_Nope>>},
      values : {<<V_Sales>>, <<<<"S", "a", "l", "e", "s", " ", "(", "s", "u", "m", ")">>>>},
      agg_func : {Agg_sum, Agg_median, Agg_AVERAGE, Agg_average, Agg_Count, Agg_count,
                  Agg_MAX, Agg_max} ]

\* The body applied to the arguments drawn at the start.
call_pivot_data_rows ==
    /\ last.op = "input"
    /\ ncalls < MaxCalls
    /\ \E r \in {pivot_data_rows(last.args.records, last.args.rows, last.args.values,
                                 last.args.agg_func)} :
        /\ ncalls' = ncalls + 1
        /\ last' = [Call("pivot_data_rows", <<>>, "none", <<>>, {}, TRUE,
                         [Ret("rows", {}, r.err) EXCEPT !.value = r.rows])
                      EXCEPT !.args = last.args]
        /\ UNCHANGED <<env, db, work, files, dirs, config, rpc, cand, accepted, reads>>

InitPivotBody == \E a \in PivotBodyArgs : InitWith(<<>>, a)

NextPivotBody == call_pivot_data_rows

SpecPivotBody == InitPivotBody /\ [][NextPivotBody]_vars

(***************************************************************************)
(* Two workbook calls on worker threads: insert_data_to_excel (run by       *)
(* fetch_and_insert_db_to_excel through asyncio.to_thread) and write_data.  *)
(* Each is load_workbook, the cell writes, wb.save.                         *)
(***************************************************************************)
\* wb.save(filename) writing over what the file holds now.
SaveWorkbook_merge(fs, path, job, wb) ==
    PutFile(fs, path,
            _write_data_to_worksheet(IF path \in DOMAIN fs THEN fs[path] ELSE wb,
                                     job.sheet_name, job.data,
                                     RowOf(job.start_cell), ColOf(job.start_cell)))

\* wb.save(filename): the workbook in memory replaces the file.
SaveWorkbook(fs, path, job, wb) == PutFile(fs, path, wb)

\* The cell writes of the call on the workbook it holds.
WriteCells(wb, job) ==
    _write_data_to_worksheet(wb, job.sheet_name, job.data,
                             RowOf(job.start_cell), ColOf(job.start_cell))

Jobs ==
    { [kind |-> "insert_data_to_excel", filename |-> F_book, sheet_name |-> "Sheet1",
       data |-> << <<<<"i", "d">>>>, <<K_1>> >>, start_cell |-> "A1"],
      [kind |-> "insert_data_to_excel", filename |-> F_book, sheet_name |-> "Sheet1_pivot",
       data |-> << <<<<"i", "d">>>>, <<K_1>> >>, start_cell |-> "A1"],
      [kind |-> "insert_data_to_excel", filename |-> F_in, sheet_name |-> "Sheet1",
       data |-> << <<<<"i", "d">>>>, <<K_1>> >>, start_cell |-> "A1"],
      [kind |-> "write_data", filename |-> F_book, sheet_name |-> "S2",
       data |-> << <<V_x, V_1>> >>, start_cell |-> "A1"],
      [kind |-> "write_data", filename |-> F_book, sheet_name |-> "Sheet1",
       data |-> << <<V_x>>, <<V_100>> >>, start_cell |-> "B2"],
      [kind |-> "write_data", filename |-> F_in, sheet_name |-> "S2",
       data |-> << <<V_x, V_1>> >>, start_cell |-> "A1"] }

\* A call is handed to a thread that is free.
x_start(t, job) ==
    /\ ncalls < MaxCalls
    /\ work.th[t].pc \in {"idle", "done"}
    /\ ncalls' = ncalls + 1
    /\ work' = [work EXCEPT !.th[t] = [Idle EXCEPT !.pc = "load", !.job = job]]
    /\ UNCHANGED <<env, db, files, dirs, config, last, rpc, cand, accepted, reads>>

\* load_workbook(path); write_data starts a new workbook when there is no file.
x_load(t) ==
    LET w    == work.th[t]
        path == realparts(w.job.filename)
        wb   == IF CanLoad(files, path) THEN files[path] ELSE NewWorkbook({})
        ok   == CanLoad(files, path)
                \/ (w.job.kind = "write_data" /\ path \notin (DOMAIN files) \cup dirs)
    IN  /\ w.pc = "load"
        /\ work' = [work EXCEPT !.th[t] =
                      IF ok THEN [w EXCEPT !.pc = "write", !.loaded = wb, !.wb = wb]
                      ELSE [w EXCEPT !.pc = "done", !.status = "error"]]
        /\ UNCHANGED <<env, db, files, dirs, config, last, ncalls, rpc, cand, accepted, reads>>

\* The sheet is taken (write_data adds it when missing) and the cells are set.
x_write(t) ==
    LET w  == work.th[t]
        ok == w.job.kind = "write_data" \/ w.job.sheet_name \in w.wb.sheets
    IN  /\ w.pc = "write"
        /\ work' = [work EXCEPT !.th[t] =
                      IF ok THEN [w EXCEPT !.pc = "save", !.wb = WriteCells(w.wb, w.job)]
                      ELSE [w EXCEPT !.pc = "done", !.status = "error"]]
        /\ UNCHANGED <<env, db, files, dirs, config, last, ncalls, rpc, cand, accepted, reads>>

\* wb.save and the result of the call.
x_save(t) ==
    LET w    == work.th[t]
        path == realparts(w.job.filename)
    IN  /\ w.pc = "save"
        /\ IF CanWrite(files, dirs, path)
           THEN /\ files' = SaveWorkbook(files, path, w.job, w.wb)
                /\ work' = [work EXCEPT !.th[t] = [w EXCEPT !.pc = "done",
                                                            !.status = "success"],
                                        !.saved = Append(@, t)]
           ELSE /\ files' = files
                /\ work' = [work EXCEPT !.th[t] = [w EXCEPT !.pc = "done",
                                                            !.status = "error"]]
        /\ UNCHANGED <<env, db, dirs, config, last, ncalls, rpc, cand, accepted, reads>>

NextWork ==
    \/ \E t \in Threads, job \in Jobs : x_start(t, job)
    \/ \E t \in Threads : x_load(t)
    \/ \E t \in Threads : x_write(t)
    \/ \E t \in Threads : x_save(t)

SpecWork == InitWith(<<>>, <<>>) /\ [][NextWork]_vars

\* _aggregate_values on each argument list of AggArgs.
InitAgg == \E a \in AggArgs : InitWith(<<>>, a)

NextAgg == call_aggregate_values

SpecAgg == InitAgg /\ [][NextAgg]_vars

\* validate_formula_secure on each formula of FormulaInputs.
InitFormulas == \E f \in FormulaInputs : InitWith(f, <<>>)

NextFormulas == call_validate_formula_secure

SpecFormulas == InitFormulas /\ [][NextFormulas]_vars

(***************************************************************************)
(* reload_configuration step by step, next to threads that read the store. *)
(* self._config = MCPExcelConfig(overrides): the object is built, then     *)
(* validated by its own __init__, and only then stored in self._config.    *)
(* A getter loads self._config and reads one field of that object, which   *)
(* nothing modifies after its construction.                                *)
(***************************************************************************)
MaxReads == 2

Fields == {"directory", "postgres_connection_string", "log_level"}

FieldOf(cfg, field) ==
    CASE field = "directory" -> get_directory(cfg)
      [] field = "postgres_connection_string" -> get_postgres_connection_string(cfg)
      [] OTHER -> get_log_level(cfg)

\* The first step of a reload that fills the fields of the active object in
\* place instead of building a new one.
r_begin_in_place(ov) ==
    /\ rpc = "idle"
    /\ ncalls < MaxCalls
    /\ \E b \in {BuildConfig(env, ov)} :
        /\ ncalls' = ncalls + 1
        /\ cand' = IF b.ok THEN b.cfg ELSE cand
        /\ config' = IF b.ok THEN b.cfg ELSE config
        /\ rpc' = IF b.ok THEN "built" ELSE "idle"
        /\ UNCHANGED <<env, db, work, files, dirs, last, accepted, reads>>

\* MCPExcelConfig.__init__ up to super().__init__: the fields are assigned.
r_begin(ov) ==
    /\ rpc = "idle"
    /\ ncalls < MaxCalls
    /\ \E b \in {BuildConfig(env, ov)} :
        /\ ncalls' = ncalls + 1
        /\ cand' = IF b.ok THEN b.cfg ELSE cand
        /\ rpc' = IF b.ok THEN "built" ELSE "idle"
        /\ UNCHANGED <<env, db, work, files, dirs, config, last, accepted, reads>>

\* MCPExcelConfig.__init__: self._validate_configuration(); a failure leaves
\* _load_configuration through its except clause.
r_validate ==
    /\ rpc = "built"
    /\ \E v \in {_validate_configuration(files, dirs, cand)} :
        /\ dirs' = v.ds
        /\ rpc' = IF v.ok THEN "valid" ELSE "idle"
        /\ UNCHANGED <<env, db, work, files, config, last, ncalls, cand, accepted, reads>>

\* _load_configuration: the store into self._config.
r_install ==
    /\ rpc = "valid"
    /\ config' = cand
    /\ accepted' = accepted \cup {cand}
    /\ rpc' = "idle"
    /\ UNCHANGED <<env, db, work, files, dirs, last, ncalls, cand, reads>>

\* get_directory / get_postgres_connection_string / get_log_level on a thread
\* of its own, at any moment of a reload.
read_config(field) ==
    /\ Len(reads) < MaxReads
    /\ reads' = Append(reads, [field |-> field, value |-> FieldOf(config, field),
                               from |-> config, during |-> rpc])
    /\ UNCHANGED <<env, db, work, files, dirs, config, last, ncalls, rpc, cand, accepted>>

ConcOverrides ==
    { Ov(Omitted, Given(Dir_second), Omitted),
      Ov(Omitted, Given(Dir_invalid), Given(<<"DEBUG">>)),
      Ov(Given(C_pgs), Given(Dir_new), Omitted),
      Ov(Given(C_bad), Given(Dir_second), Given(<<"DEBUG">>)),
      Ov(Omitted, Given(Dir_second), Given(<<"TRACE">>)) }

NextConc ==
    \/ \E ov \in ConcOverrides : r_begin(ov)
    \/ r_validate
    \/ r_install
    \/ \E field \in Fields : read_config(field)

SpecConc == Init /\ [][NextConc]_vars

(***************************************************************************)
(* Properties.                                                             *)
(***************************************************************************)
AllowedNow == _get_allowed_directories(env)

\* A physical path is an allowed directory or lies below one.
InsideAllowed(parts) ==
    \E i \in 1..Len(AllowedNow) : IsPrefix(realparts(AllowedNow[i]), parts)

\* The physical paths whose content the last call created or changed.
Written == {p \in DOMAIN files : p \notin DOMAIN last.before \/ files[p] # last.before[p]}

ToolOps ==
    {"create_excel_workbook", "write_data_to_excel", "delete_worksheet",
     "apply_formula_excel"}

\* C1: the path resolve_safe_path returns, with '..' and symlinks resolved, is
\* an allowed directory or a descendant of one; for '../../../etc/passwd' it is
\* <first allowed directory>/passwd; create_excel_workbook writes nothing
\* outside the allowed directories.
C1_ResolvedPathStaysInside ==
    /\ (last.op = "resolve_safe_path" /\ last.ret.shape = "path")
          => InsideAllowed(realparts(last.ret.value))
    /\ (last.op = "resolve_safe_path" /\ last.filename = F_trav)
          => /\ last.ret.shape = "path"
             /\ realparts(last.ret.value)
                  = Append(realparts(AllowedNow[1]), <<"passwd">>)
    /\ last.op = "create_excel_workbook" => \A p \in Written : InsideAllowed(p)

\* C2: is_path_in_allowed_directories(p) is (True, None) exactly when the
\* resolved form of p is an allowed directory or a descendant of one, any entry
\* of the list; otherwise (False, reason), the reason naming p and the list; it
\* never raises.
C2_VerdictIsResolvedContainment ==
    last.op = "is_path_in_allowed_directories" =>
        /\ last.ret.shape = "tuple"
        /\ last.ret.ok <=> InsideAllowed(realparts(last.filename))
        /\ last.ret.ok => last.ret.reason = NoReason
        /\ ~last.ret.ok => /\ last.ret.reason.path = last.filename
                           /\ last.ret.reason.dirs = AllowedNow

\* C3: symlinks are resolved before the containment test: the verdict on a
\* path equals the verdict on its symlink-free target, and a path below an
\* allowed directory that is configured through a symlink is accepted.
C3_SymlinkVerdictEqualsTargetVerdict ==
    last.op = "is_path_in_allowed_directories" =>
        /\ last.ret.ok
             = _is_path_in_allowed_directories(env, resolve(last.filename)).ok
        /\ (\E i \in 1..Len(AllowedNow) :
                IsPrefix(Comps(AllowedNow[i]), Comps(abspath(last.filename))))
             => last.ret.ok

\* C4: the path at which a tool opens, creates or saves the workbook is the
\* path, extension appended, that the gate checked and accepted in that call.
C4_OpenedPathIsCheckedPath ==
    ( /\ last.op \in {"write_data_to_excel", "delete_worksheet", "apply_formula_excel"}
      /\ last.opened # {} ) =>
        /\ last.gate = "ok"
        /\ last.checked = abspath(ensure_xlsx_extension(last.filename))
        /\ last.opened = {realparts(last.checked)}

\* C5: when the gate rejects a call because the path is outside the allowed
\* directories, the wrapped function is not invoked, the result is a mapping
\* with status 'error', and no file or directory is created or modified.
C5_DeniedCallHasNoEffect ==
    last.gate = "denied" =>
        /\ ~last.invoked
        /\ last.ret.shape = "dict"
        /\ last.ret.status = "error"
        /\ "status" \in last.ret.keys
        /\ files = last.before
        /\ dirs = last.dirsBefore

\* write_data_to_excel has been denied on a path whose parent
\* directory exists and is writable.
C5_Witness ==
    /\ last.gate = "denied"
    /\ last.op = "write_data_to_excel"
    /\ last.filename = F_out
    /\ CanWrite(files, dirs, realparts(F_out))

CallsDangerous(formula) ==
    FindallSecure(Upper(formula)) \cap DANGEROUS_FUNCTIONS # {}

\* C6: a formula that calls a dangerous function, applied through
\* apply_formula_secure or the apply_formula_excel tool, gives an error result
\* marked security_error, and every workbook on disk keeps its content.
C6_DangerousFormulaRejected ==
    ( /\ last.op \in {"apply_formula_secure", "apply_formula_excel"}
      /\ last.invoked
      /\ CallsDangerous(last.formula) ) =>
        /\ last.ret.status = "error"
        /\ "security_error" \in last.ret.keys
        /\ \A p \in DOMAIN last.before :
               last.before[p].kind = "workbook" => files[p] = last.before[p]

IsFailure(r) == r.shape = "raise" \/ r.status = "error" \/ "error" \in r.keys

\* C7: every tool returns normally, and each failure result is a mapping with
\* status 'error' and a message.
C7_FailureIsStatusErrorMapping ==
    last.op \in ToolOps =>
        /\ last.ret.shape # "raise"
        /\ IsFailure(last.ret) =>
              /\ last.ret.shape = "dict"
              /\ last.ret.status = "error"
              /\ {"status", "message"} \subseteq last.ret.keys

\* C8: a reload_configuration that fails validation leaves the configuration
\* that was active before the call, so the three getters return what they did.
C8_FailedReloadKeepsConfiguration ==
    (last.op = "reload_configuration" /\ last.ret.shape = "raise") =>
        /\ config = last.cfgBefore
        /\ get_directory(config) = get_directory(last.cfgBefore)
        /\ get_postgres_connection_string(config)
             = get_postgres_connection_string(last.cfgBefore)
        /\ get_log_level(config) = get_log_level(last.cfgBefore)
        /\ config \in accepted

\* A reload has failed after an earlier one replaced the first configuration.
C8_Witness ==
    /\ last.op = "reload_configuration"
    /\ last.ret.shape = "raise"
    /\ last.ov.directory.given
    /\ Cardinality(accepted) = 2
    /\ config.directory = Dir_second

\* C9: after reload_configuration(directory=D) succeeds the gate's roots are D:
\* the allowed directories are exactly D, and the gate and validate_file_path
\* give the same verdict on every path.
C9_GateRootsComeFromConfiguration ==
    ( /\ last.op = "reload_configuration"
      /\ last.ret.shape # "raise"
      /\ last.ov.directory.given ) =>
        /\ AllowedNow = <<abspath(get_directory(config))>>
        /\ \A f \in Filenames :
               _is_path_in_allowed_directories(env, f).ok
                 = validate_file_path(config, f)

\* C10: every value a reader obtains while reloads run comes from one
\* configuration that passed validation in full: the one active before the
\* reload or the one the reload installs.
C10_ReadersSeeValidatedConfiguration ==
    /\ config \in accepted
    /\ \A i \in 1..Len(reads) :
           /\ reads[i].from \in accepted
           /\ reads[i].value = FieldOf(reads[i].from, reads[i].field)

\* A read made while a reload was between construction and installation, and
\* a later read that returned the value the reload installed.
C10_Witness ==
    /\ Len(reads) = 2
    /\ reads[1].during \in {"built", "valid"}
    /\ reads[2].from # reads[1].from
    /\ reads[1].field = reads[2].field
    /\ reads[1].value # reads[2].value

\* C11: resolve_safe_path maps a relative filename to <first allowed
\* directory>/<filename>, returns an absolute path that lies inside an allowed
\* directory as it came, maps an absolute path outside every allowed directory
\* to <first allowed directory>/<basename>, and raises only when the list of
\* allowed directories is empty.
C11_ResolveSafePathMapping ==
    last.op = "resolve_safe_path" =>
        LET f      == last.filename
            first  == AllowedNow[1]
            v      == last.ret.value
            inside == \E i \in 1..Len(AllowedNow) :
                          RelativeTo(resolve(f), resolve(AllowedNow[i]))
        IN  /\ (last.ret.shape = "raise") <=> (AllowedNow = <<>>)
            /\ last.ret.shape # "raise" =>
                 /\ ~isabs(f) => v = first \o <<SEP>> \o f
                 /\ (isabs(f) /\ inside) => v = f
                 /\ (isabs(f) /\ ~inside) => v = first \o <<SEP>> \o Last(Comps(f))

\* An absolute path outside both allowed directories came back as a path in
\* the first one.
C11_Witness ==
    /\ last.op = "resolve_safe_path"
    /\ env = D_two
    /\ last.filename = F_out
    /\ last.ret.shape = "path"
    /\ last.ret.value = F_in

\* C12: _check_file_writeable returns (False, reason) with the reason of the
\* first unmet condition, in the order: path not in the allowed directories,
\* existing path is a directory, existing file without write permission,
\* parent directory missing, parent directory not writable, append probe
\* failing; it returns True only when none applies, and it never raises.
C12_FirstUnmetConditionReported ==
    last.op = "check_file_writeable" =>
        LET a      == abspath(last.filename)
            parent == dirname(a)
            fs     == last.before
            ds     == last.dirsBefore
            there  == exists(fs, ds, a)
            unmet  == << ~_is_path_in_allowed_directories(env, a).ok,
                         there /\ isdir(ds, a),
                         there /\ ~access_w(a),
                         ~there /\ ~exists(fs, ds, parent),
                         ~there /\ ~access_w(parent),
                         ~CanWrite(fs, ds, realparts(a)) >>
            reason == << "not in allowed directories", "Path is a directory",
                         "Permission denied", "Directory does not exist",
                         "Directory not writeable", "Write test failed" >>
            hit    == {i \in 1..6 : unmet[i]}
        IN  /\ last.ret.shape = "tuple"
            /\ last.ret.ok <=> (hit = {})
            /\ last.ret.ok => last.ret.reason.kind = ""
            /\ \A i \in hit :
                  (\A j \in hit : i <= j) => last.ret.reason.kind = reason[i]
            /\ \A i, j \in 1..6 : i # j => reason[i] # reason[j]
            /\ ~last.ret.ok => files = last.before

\* The append probe failed on a path that passed the five tests before it.
C12_Witness ==
    /\ last.op = "check_file_writeable"
    /\ last.filename = F_gone
    /\ ~last.ret.ok
    /\ last.ret.reason.kind = "Write test failed"

\* The formula with surrounding white space removed and a leading '='.
Normalized(formula) ==
    IF StartsWith(Strip(formula), <<"=">>) THEN Strip(formula)
    ELSE <<"=">> \o Strip(formula)

\* The call tokens NAME( of s: the maximal runs of name characters that reach
\* a '(' across optional white space.
CallTokens(s) ==
    { SubSeq(s, ab[1], ab[2]) : ab \in
        { ab \in (1..Len(s)) \X (1..Len(s)) :
            /\ ab[1] <= ab[2]
            /\ \A i \in ab[1]..ab[2] : IsNameChar(s[i])
            /\ (ab[1] = 1 \/ ~IsNameChar(s[ab[1] - 1]))
            /\ ab[2] < Len(s) /\ ~IsNameChar(s[ab[2] + 1])
            /\ \E p \in (ab[2] + 1)..Len(s) :
                   /\ s[p] = "("
                   /\ \A j \in (ab[2] + 1)..(p - 1) : IsSpace(s[j]) } }

\* C13: every formula validate_formula_secure accepts has, in its normalized
\* form, a running parenthesis count that never goes negative and ends at
\* zero, a length of at most 8192, no call token whose name is in the
\* dangerous set (case ignored) and no injection pattern; empty or
\* white-space-only input is never accepted.
C13_AcceptedFormulaInvariant ==
    last.op = "validate_formula_secure" =>
        LET n == Normalized(last.formula)
        IN  /\ Strip(last.formula) = <<>> => ~last.ret.ok
            /\ last.ret.ok =>
                 /\ \A k \in 1..Len(n) : Depth(n, k) >= 0
                 /\ Depth(n, Len(n)) = 0
                 /\ StrLen(n) <= 8192
                 /\ CallTokens(Upper(n)) \cap DANGEROUS_FUNCTIONS = {}
                 /\ ~INJECTION_PATTERNS(Lower(n))

\* An accepted formula of exactly 8192 characters.
C13_Witness ==
    /\ last.op = "validate_formula_secure"
    /\ last.ret.ok
    /\ StrLen(Normalized(last.formula)) = 8192

\* C19: validate_formula_secure reports the reason of the earliest violated
\* check in the order non-empty, dangerous function, injection pattern,
\* parenthesis balance, length, base syntax check.
C19_EarliestViolatedCheckReported ==
    last.op = "validate_formula_secure" =>
        LET n        == Normalized(last.formula)
            violated == << Strip(last.formula) = <<>>,
                           FindallSecure(Upper(n)) \cap DANGEROUS_FUNCTIONS # {},
                           INJECTION_PATTERNS(Lower(n)),
                           Count(n, "(") # Count(n, ")"),
                           StrLen(n) > 8192,
                           ~validate_formula(n).ok >>
            reason   == << "Formula cannot be empty", "Dangerous functions detected",
                           "Suspicious pattern detected", "Unbalanced parentheses",
                           "Formula exceeds maximum length", validate_formula(n).msg >>
            hit      == {i \in 1..6 : violated[i]}
        IN  /\ last.ret.ok <=> (hit = {})
            /\ \A i \in hit : (\A j \in hit : i <= j) => last.ret.status = reason[i]

\* A formula that calls a dangerous function, is unbalanced and is too long:
\* the dangerous function is what is reported.
C19_Witness ==
    /\ last.op = "validate_formula_secure"
    /\ last.ret.status = "Dangerous functions detected"
    /\ Count(Normalized(last.formula), "(") # Count(Normalized(last.formula), ")")
    /\ StrLen(Normalized(last.formula)) > 8192

\* What the last call of create_pivot_table was given.
PivotOf(rows, values, agg_func) ==
    /\ last.op = "create_pivot_table"
    /\ last.args.sheet_name = "Sheet1"
    /\ last.args.data_range = R_full
    /\ last.args.rows = rows
    /\ last.args.values = values
    /\ last.args.columns = <<>>
    /\ last.args.agg_func = agg_func

\* The data rows of the pivot sheet of /docs/sales.xlsx: the rows below the
\* header that hold a value.
PivotRows ==
    LET wb  == files[P_sales]
        row(r) == [c \in 1..NCols |-> CellOf(wb, "Sheet1_pivot", r, c)]
        HasValue(rw) == \E c \in 1..Len(rw) : rw[c] # Blank
    IN  SelectSeq([i \in 1..(NRows - 1) |-> row(i + 1)], HasValue)

\* C14: with one row field, one value field, no column fields and aggregate
\* 'sum', the pivot sheet has one data row per distinct value of the row field
\* in ascending order, each with the sum of the value field over its source
\* rows: for (North,100), (North,200), (South,150) it holds North 300 then
\* South 150.
C14_SimplePivotSums ==
    PivotOf(<<V_Region>>, <<V_Sales>>, Agg_sum) =>
        /\ last.ret.shape = "dict"
        /\ "error" \notin last.ret.keys
        /\ PivotRows = << <<V_North, <<"300">>>>, <<V_South, <<"150">>>> >>

\* C16: when create_pivot_table fails validation (source sheet missing,
\* malformed range, unknown row, column or value field, unknown aggregate
\* name, empty source data) it returns an error result and the workbook on
\* disk is unchanged, an existing pivot sheet included.
C16_FailedValidationReturnsError ==
    ( /\ last.op = "create_pivot_table"
      /\ \/ last.args.sheet_name # "Sheet1"
         \/ last.args.data_range # R_full
         \/ last.args.rows = <<V_Nope>>
         \/ last.args.values = <<V_Nope>>
         \/ last.args.columns = <<V_Nope>>
         \/ last.args.agg_func = Agg_median )
    => /\ last.ret.shape = "dict"
       /\ "error" \in last.ret.keys
       /\ files = last.before

\* C20: the data rows of the pivot sheet are the Cartesian product of the
\* sorted distinct values of the row fields, first field slowest: one row per
\* value of a single row field, exactly one data row with no row fields.
C20_PivotRowsAreProduct ==
    /\ PivotOf(<<V_Region>>, <<V_Sales>>, Agg_sum) =>
          /\ last.ret.shape = "dict" /\ "error" \notin last.ret.keys
          /\ Len(PivotRows) = 2
          /\ PivotRows[1][1] = V_North /\ PivotRows[2][1] = V_South
    /\ PivotOf(<<>>, <<V_Sales>>, Agg_sum) =>
          /\ last.ret.shape = "dict" /\ "error" \notin last.ret.keys
          /\ Len(PivotRows) = 1

\* The numbers of the field among the records given to the last call of
\* _aggregate_values, as a bag of positions.
NumericAt ==
    { i \in 1..Len(last.args.data) :
        /\ last.args.field \in DOMAIN last.args.data[i]
        /\ IsNumber(last.args.data[i][last.args.field]) }

NumberAt(i) == NumberOf[last.args.data[i][last.args.field][1]]

RECURSIVE TotalOver(_)
TotalOver(S) ==
    IF S = {} THEN 0 ELSE LET i == CHOOSE i \in S : TRUE IN NumberAt(i) + TotalOver(S \ {i})

\* C15: _aggregate_values reduces only the values of the field that are
\* numbers: sum is their sum, average their sum over their count, count how
\* many there are, min and max range over them; records where the field is
\* missing or not a number are left out, and with no number the result is 0
\* for every aggregate.
C15_AggregateOverNumbersOnly ==
    last.op = "_aggregate_values" =>
        LET agg == last.args.agg_func
            num == last.ret.value[1]
            den == last.ret.value[2]
        IN  /\ last.ret.shape = "number"
            /\ NumericAt = {} => (num = 0 /\ den = 1)
            /\ (NumericAt # {} /\ agg = "sum") => (num = TotalOver(NumericAt) /\ den = 1)
            /\ (NumericAt # {} /\ agg = "average") =>
                   (num = TotalOver(NumericAt) /\ den = Cardinality(NumericAt))
            /\ (NumericAt # {} /\ agg = "count") => (num = Cardinality(NumericAt) /\ den = 1)
            /\ (NumericAt # {} /\ agg = "min") =>
                   /\ den = 1
                   /\ \E i \in NumericAt : num = NumberAt(i)
                   /\ \A i \in NumericAt : num <= NumberAt(i)
            /\ (NumericAt # {} /\ agg = "max") =>
                   /\ den = 1
                   /\ \E i \in NumericAt : num = NumberAt(i)
                   /\ \A i \in NumericAt : num >= NumberAt(i)

\* A count over three records of which one holds a number, one a text of
\* digits and one nothing: the count is 1.
C15_Witness ==
    /\ last.op = "_aggregate_values"
    /\ last.args.agg_func = "count"
    /\ Len(last.args.data) = 3
    /\ Cardinality(NumericAt) = 1
    /\ \E i \in 1..3 : last.args.data[i] = (V_Sales :> <<"1", "0", "0">>)
    /\ last.ret.value = <<1, 1>>

\* C17: the row count reported by insert_data_to_db and by the
\* insert_calculated_data_to_db tool is the number of rows the call committed
\* to the table: on success the reported count is that number, and a call
\* that fails after committing rows still reports how many it committed.
C17_ReportedCountIsCommitted ==
    [][ last'.op \in {"insert_data_to_db", "insert_calculated_data_to_db"} =>
          LET committed == Cardinality(db' \ db)
          IN  /\ last'.ret.status = "success" => last'.ret.value = <<committed>>
              /\ (last'.ret.status = "error" /\ committed > 0) =>
                     last'.ret.value = <<committed>> ]_vars

\* The cell at the lower right corner of the block written by the call `a`.
EndOfBlock(a) ==
    Grid[RowOf(a.start_cell) + Len(a.data) - 1][ColOf(a.start_cell) + Len(a.data[1]) - 1]

\* A read_excel_range of exactly the block that the write_data before it wrote.
ReadsBackBlock ==
    /\ last.op = "write_data"
    /\ last.ret.ok
    /\ last'.op = "read_excel_range"
    /\ last'.args.filename = last.args.filename
    /\ last'.args.sheet_name = last.args.sheet_name
    /\ last'.args.start_cell = last.args.start_cell
    /\ last'.args.end_cell = EndOfBlock(last.args)

NoneFree(data) == \A i \in 1..Len(data) : \A j \in 1..Len(data[i]) : data[i][j] # Blank

\* Every value is a number or a text that is not empty and does not start
\* with '='.
PlainValues(data) ==
    \A i \in 1..Len(data) : \A j \in 1..Len(data[i]) :
        data[i][j] # Blank /\ ~IsFormula(data[i][j])

C24_CheckLeavesFilesystem ==
    [][ last'.op = "check_file_writeable" => (files' = files /\ dirs' = dirs) ]_vars

\* The entries of the configured comma-separated string that are not blank.
NonBlankEntries ==
    LET parts == Split(IF env.set THEN env.value ELSE DefaultDirectory, ",")
    IN  {Strip(parts[j]) : j \in {k \in 1..Len(parts) : Strip(parts[k]) # <<>>}}

\* C30: every directory returned by _get_allowed_directories comes from a
\* non-blank entry of the configured string, and a path is reported as
\* allowed only when it lies under such a directory: an empty entry (a
\* trailing comma) does not put the current working directory on the list.
C30_AllowedFromNonBlankEntries ==
    /\ \A i \in 1..Len(AllowedNow) : \E d \in NonBlankEntries : AllowedNow[i] = abspath(d)
    /\ (last.op = "is_path_in_allowed_directories" /\ last.ret.ok) =>
           \E d \in NonBlankEntries :
               IsPrefix(Comps(abspath(d)), Comps(abspath(last.filename)))

\* The functionally unsafe functions that the string s, in upper case, calls:
\* the name directly followed by '('.
UnsafeCalls(s) ==
    { u \in UnsafeFuncs :
        \E k \in 1..Len(s) :
            /\ k + Len(u) <= Len(s)
            /\ SubSeq(s, k, k + Len(u)) = u \o <<"(">>
            /\ (k = 1 \/ ~IsUpper(s[k - 1])) }

\* C26: validate_formula_secure rejects every formula that calls INDIRECT,
\* HYPERLINK, WEBSERVICE, DGET or RTD, in whatever letter case the name is
\* written.
C26_UnsafeFunctionsRejectedAnyCase ==
    (last.op = "validate_formula_secure" /\ UnsafeCalls(Upper(Normalized(last.formula))) # {})
        => ~last.ret.ok

\* C25: apply_formula, and create_sheet on an existing workbook, change only
\* what they target: after a successful call every other cell of the workbook
\* on disk holds what it held before the call, formulas included.
C25_OtherCellsKept ==
    [][ ( /\ last'.op \in {"apply_formula", "create_sheet"}
          /\ last'.ret.ok
          /\ realparts(last'.filename) \in DOMAIN files )
        => \A k \in CellKeys :
               (last'.op = "apply_formula" /\ k = <<last'.args.sheet_name, last'.args.cell>>)
               \/ files'[realparts(last'.filename)].cells[k]
                    = files[realparts(last'.filename)].cells[k] ]_vars

\* The keys of the rows of the batches that the events ev show as committed.
CommittedKeys(ev) ==
    UNION { {ev[i].rows[j][1] : j \in 1..Len(ev[i].rows)} :
              i \in {k \in 1..(Len(ev) - 1) : ev[k].e = "execute" /\ ev[k + 1].e = "commit"} }

\* C21: insert_data_to_db takes the rows in consecutive batches of batch_size
\* and commits after each one; a batch that fails is rolled back, nothing is
\* attempted after it, the batches before it stay committed, and the
\* connection that was opened is closed on every way out.
C21_BatchesCommitInOrder ==
    [][ (last'.op = "insert_data_to_db" /\ last'.events # <<>>) =>
          LET ev   == last'.events
              rows == last'.args.rows
              bs   == last'.args.batch_size
              m    == (Len(ev) - 2) \div 2
              upto(k) == IF k * bs < Len(rows) THEN k * bs ELSE Len(rows)
          IN  /\ Len(ev) = 2 * m + 2
              /\ ev[1].e = "connect" /\ ev[Len(ev)].e = "close"
              /\ \A k \in 1..m :
                    /\ ev[2 * k].e = "execute"
                    /\ ev[2 * k].rows # <<>>
                    /\ ev[2 * k].rows = SubSeq(rows, (k - 1) * bs + 1, upto(k))
                    /\ ev[2 * k + 1].e \in {"commit", "rollback"}
                    /\ ev[2 * k + 1].e = "rollback" <=>
                           \E j \in 1..Len(ev[2 * k].rows) : Rejected(ev[2 * k].rows[j])
                    /\ ev[2 * k + 1].e = "rollback" => k = m
              /\ (m = 0 \/ ev[2 * m + 1].e = "commit") => upto(m) = Len(rows)
              /\ db' = db \cup CommittedKeys(ev)
              /\ last'.ret.status = "error" <=> (m > 0 /\ ev[2 * m + 1].e = "rollback") ]_vars

\* Three batches of one row of which the second is rejected: the first is
\* committed, the second rolled back, the third never attempted, and the
\* connection is closed.
C21_Witness ==
    /\ last.op = "insert_data_to_db"
    /\ last.args.rows = <<<<K_2>>, <<K_bad>>, <<K_3>>>>
    /\ last.args.batch_size = 1
    /\ last.ret.status = "error"
    /\ db = {K_1, K_2}
    /\ last.events = << Event("connect", <<>>), Event("execute", <<<<K_2>>>>),
                        Event("commit", <<>>), Event("execute", <<<<K_bad>>>>),
                        Event("rollback", <<>>), Event("close", <<>>) >>

\* C22: fetch_and_insert_db_to_excel checks that a database is configured,
\* then the file path, then the query, then fetches, then writes the
\* workbook, and stops at the first step that fails with a status 'error'
\* result: a path outside the configured directory or a rejected query means
\* no connection, no query and no workbook opened or saved; a failed fetch
\* means no workbook opened or saved.
C22_StepsInOrderStopAtFirstFailure ==
    last.op = "fetch_and_insert_db_to_excel" =>
        LET a          == last.args
            msg        == last.ret.reason.kind
            configured == a.connection_string # None
                          \/ get_postgres_connection_string(config) # None
            pathOK     == validate_file_path(config, ensure_xlsx_extension(a.filename))
            queryOK    == validate_sql_query(a.query)
            queried    == \E i \in 1..Len(last.events) : last.events[i].e = "query"
            touched    == last.opened # {} \/ files # last.before
        IN  /\ last.ret.status \in {"success", "error"}
            /\ ~configured => msg = "not configured"
            /\ (configured /\ ~pathOK) => msg = "file path validation failed"
            /\ (configured /\ pathOK /\ ~queryOK) => msg = "unsafe query"
            /\ (~configured \/ ~pathOK \/ ~queryOK) =>
                   (last.ret.status = "error" /\ last.events = <<>> /\ ~touched)
            /\ msg = "database query failed" => (last.ret.status = "error" /\ ~touched)
            /\ touched => (queried /\ msg \in {"excel operation failed", "inserted"})
            /\ last.ret.status = "success" => (queried /\ files # last.before)

\* A rejected query on a workbook inside the directory with a server that is
\* up: an error, no connection made, the workbook neither opened nor changed.
C22_Witness ==
    /\ last.op = "fetch_and_insert_db_to_excel"
    /\ last.args.query = Q_drop
    /\ last.args.filename = F_book
    /\ last.args.connection_string = C_pg
    /\ last.ret.status = "error"
    /\ last.ret.reason.kind = "unsafe query"
    /\ last.events = <<>>
    /\ last.opened = {}
    /\ files = last.before

(***************************************************************************)
(* C23: calls on the same workbook path are not serialized: the file left   *)
(* by a successful save is the snapshot the saving call loaded with only    *)
(* that call's cells written on it, whatever other calls saved in between,  *)
(* so two overlapping successful calls leave only the last saver's changes. *)
(***************************************************************************)
LastSaver == work.saved[Len(work.saved)]

C23_LastSaverWins ==
    (work.saved # <<>> /\ work.th[LastSaver].pc = "done"
       /\ work.th[LastSaver].status = "success")
    => LET w == work.th[LastSaver]
       IN  files[realparts(w.job.filename)] = WriteCells(w.loaded, w.job)

\* Thread 1 wrote the id column on Sheet1, thread 2 wrote S2 of the same file
\* and saved last: both succeeded and the id column is not in the file.
C23_Witness ==
    /\ work.saved = <<1, 2>>
    /\ \A t \in Threads : work.th[t].pc = "done" /\ work.th[t].status = "success"
    /\ work.th[1].job.kind = "insert_data_to_excel"
    /\ work.th[2].job.kind = "write_data"
    /\ work.th[1].job.filename = F_book /\ work.th[2].job.filename = F_book
    /\ work.th[1].job.sheet_name = "Sheet1" /\ work.th[2].job.sheet_name = "S2"
    /\ files[P_book].cells[<<"Sheet1", "A1">>] = Blank
    /\ files[P_book].cells[<<"S2", "A1">>] = V_x

\* The numeric values of the field over a sequence of records, summed.
FieldTotal(records, field) ==
    LET IsNum(record) == field \in DOMAIN record /\ IsNumber(record[field])
        kept == SelectSeq(records, IsNum)
    IN  SumSeq([i \in 1..Len(kept) |-> NumberOf[kept[i][field][1]]])

\* The last call of the pivot body: aggregate 'sum', row field Region spelled
\* as the header, a header record first and data records after it.
SumPivotByRegion ==
    /\ last.op = "pivot_data_rows"
    /\ last.args.agg_func = Agg_sum
    /\ last.args.rows = <<V_Region>>
    /\ last.args.values = <<V_Sales>>
    /\ Len(last.args.records) > 1
    /\ last.args.records[1] = HeaderRecord

C28_DefaultAggregateAccepted ==
    ( /\ last.op = "tool_create_pivot_table"
      /\ last.invoked
      /\ ~last.args.agg_func.given
      /\ last.args.filename = F_sales
      /\ last.args.sheet_name = "Sheet1"
      /\ last.args.data_range = R_full )
    => last.ret.reason.kind # "Invalid aggregation function"

====
